---- MODULE Spec2Model ----
(***************************************************************************)
(* A model of the kino player core: the PlayerSession state machine        *)
(* (kino-core/src/session.rs), the BufferManager, the AbrEngine and the    *)
(* AnalyticsEmitter (psm-player-core/src/{buffer,abr,analytics}.rs).       *)
(*                                                                         *)
(* Every async fn is a procedure whose steps are the points at which the   *)
(* code touches a shared object behind a tokio RwLock; a task is a caller  *)
(* running one such procedure at a time.  Times are in half seconds, so    *)
(* that the 0.5 s end-of-content margin is one unit; byte sizes and        *)
(* bandwidths are small integers of their own units.                       *)
(***************************************************************************)
EXTENDS Integers, Sequences, FiniteSets, TLC

\* ------------------------------------------------------------------ bounds
NumTasks == 2
MaxOps == 3
MaxSeqOps == 4
MaxStartedOps == 4
MaxLoadOps == 4
MaxBufOps == 3
MaxBufSeqOps == 4
MaxBufFilledOps == 5
FillOps == 3
MaxRefillOps == 5
MaxEmits == 52
MaxStalledEmits == 1002
MaxReceived == 1
MaxAbrCalls == 4
MaxHybridCalls == 2
MaxQoeCalls == 8
MaxBitrateSamples == 2
MaxClassified == 2
MaxRenditions == 3

Tasks == 1..NumTasks

\* ------------------------------------------------------- program constants
\* AnalyticsEmitter::new: max_buffer_size
max_buffer_size == 50
\* AnalyticsEmitter::new: mpsc::channel(1000)
ChannelCapacity == 1000
\* evict_segments: segment.end_time < playback_pos - 5.0 (half seconds)
EvictBehind == 10
\* cleanup_consumed: threshold = playback_pos - 10.0 (half seconds)
CleanupBehind == 20
\* update_position: position >= duration - 0.5 (half seconds)
EndedMargin == 1
\* AbrEngine::select_rendition: stability_counter < 3
StabilityLimit == 3
\* AbrEngine::new: max_history
max_history == 20

NoneV == <<>>
Some(x) == <<x>>
IsSome(o) == Len(o) = 1
Unwrap(o) == o[1]

Max2(a, b) == IF a >= b THEN a ELSE b
Min2(a, b) == IF a <= b THEN a ELSE b

VARIABLES
  config,             \* PlayerConfig / BufferConfig of the session
  state,              \* PlayerSession.state
  state_tx,           \* last value sent on the watch channel
  position,           \* PlayerSession.position
  duration,           \* PlayerSession.duration (Option)
  manifest,           \* PlayerSession.manifest (Option)
  current_rendition,  \* PlayerSession.current_rendition (Option)
  stall_count,        \* PlayerSession.metrics.stall_count
  segments,           \* BufferManager.segments: number -> BufferedSegment
  playback_position,  \* BufferManager.playback_position
  buffered_duration,  \* BufferManager.buffered_duration
  memory_used,        \* BufferManager.memory_used
  abr,                \* AbrEngine
  sequence,           \* AnalyticsEmitter.sequence
  abuf,               \* AnalyticsEmitter.buffer
  flushed,            \* records handed to flush_events, in order
  chan,               \* records in the event channel, sent and not yet received
  qoe,                \* QoeCalculator, with the last score it returned
  classified,         \* the errors the host has asked is_recoverable about
  parsed,             \* the last document given to a manifest parser, and the outcome
  locks,              \* the RwLocks that are held across await points
  pc,                 \* per task: the step it is at
  stack,              \* per task: return labels of the calls in progress
  loc,                \* per task: locals of the procedures in progress
  nops,               \* operations started so far
  applied,            \* history: the writes of `state`, in the order applied
  ret,                \* history: per task, the last completed operation
  abrOut              \* history: the last select_rendition call and its result

sessVars == <<state, state_tx, position, duration, manifest, current_rendition, stall_count>>
bufVars == <<segments, playback_position, buffered_duration, memory_used>>
emVars == <<sequence, abuf, flushed, chan, qoe>>
taskVars == <<locks, pc, stack, loc, nops, ret>>
vars == <<config, classified, parsed, sessVars, bufVars, abr, emVars, taskVars, applied, abrOut>>

\* ------------------------------------------------------------------ locks
(* tokio::sync::RwLock is fair (write-preferring): requests queue in FIFO   *)
(* order, a reader that arrives behind a queued writer waits for it.  A     *)
(* task joins the queue when it reaches the step that awaits the lock.      *)
LockNames == {"seq", "abr", "manifest", "duration", "metrics", "position", "segments"}

FreeLock == [w |-> 0, r |-> [t \in Tasks |-> 0], q |-> <<>>]

\* The lock a step awaits: <<name, "r" | "w">>, or <<>>.
Need(label) ==
  CASE label = "em_seq" -> <<"seq", "w">>
    [] label = "ld_store" -> <<"manifest", "w">>
    [] label = "ld_dur" -> <<"duration", "w">>
    [] label = "cx_man" -> <<"manifest", "r">>
    [] label = "cx_abr" -> <<"abr", "r">>
    [] label \in {"ld_abr", "fs_abr"} -> <<"abr", "w">>
    [] label = "sk_dur" -> <<"duration", "r">>
    [] label = "st_man" -> <<"manifest", "w">>
    [] label = "up_dur" -> <<"duration", "r">>
    [] label = "up_met" -> <<"metrics", "w">>
    [] label \in {"ss_pos", "pl_emit", "pa_emit", "sk_emit", "st_emit"} -> <<"position", "r">>
    [] label \in {"up_pos", "sk_pos", "st_pos"} -> <<"position", "w">>
    [] label \in {"ev_seg", "as_ins", "cs_seg", "cc_seg", "cl_seg"} -> <<"segments", "w">>
    [] label \in {"as_last", "bl_seg", "bs_get", "br_seg", "sx_outer"} -> <<"segments", "r">>
    [] OTHER -> <<>>

QIndex(q, t) == CHOOSE i \in 1..Len(q) : q[i][1] = t
InQueue(q, t) == \E i \in 1..Len(q) : q[i][1] = t
Dequeue(q, t) == LET i == QIndex(q, t) IN SubSeq(q, 1, i - 1) \o SubSeq(q, i + 1, Len(q))

\* May the request task t queued at its current step be granted now?
Granted(L, t, label) ==
  LET n == Need(label)[1]
      k == Need(label)[2]
      l == L[n]
      i == QIndex(l.q, t)
  IN /\ InQueue(l.q, t)
     /\ l.w = 0
     /\ \A j \in 1..(i - 1) : l.q[j][2] = "r"
     /\ (k = "w" => (i = 1 /\ \A u \in Tasks : l.r[u] = 0))

Ready(t) == IF Need(pc[t]) = <<>> THEN TRUE ELSE Granted(locks, t, pc[t])

\* t joins the queue of the lock that `label` awaits.
Arrive(L, t, label) ==
  IF Need(label) = <<>> THEN L
  ELSE LET n == Need(label)[1] IN
       [L EXCEPT ![n].q = Append(@, <<t, Need(label)[2]>>)]

\* t's request at `label` is granted and the guard is kept.
Take(L, t, label) ==
  LET n == Need(label)[1] IN
  IF Need(label)[2] = "w"
  THEN [L EXCEPT ![n].q = Dequeue(@, t), ![n].w = t]
  ELSE [L EXCEPT ![n].q = Dequeue(@, t), ![n].r[t] = @ + 1]

\* t's request at `label` is granted and the guard is a temporary of the step.
Pass(L, t, label) ==
  IF Need(label) = <<>> THEN L
  ELSE [L EXCEPT ![Need(label)[1]].q = Dequeue(@, t)]

RelW(L, n) == [L EXCEPT ![n].w = 0]
RelR(L, t, n) == [L EXCEPT ![n].r[t] = @ - 1]

\* Every guard of t is dropped (an error leaves the operation through `?`).
DropAll(L, t) ==
  [n \in LockNames |->
     [w |-> IF L[n].w = t THEN 0 ELSE L[n].w,
      r |-> [L[n].r EXCEPT ![t] = 0],
      q |-> L[n].q]]

\* ------------------------------------------------------------------ tasks
LocInit ==
  [op |-> "-", n |-> 0, p |-> 0, m |-> NoneV, seg |-> NoneV, tid |-> 0,
   new_state |-> "-", current |-> "-", event |-> NoneV, record |-> NoneV,
   clamped |-> 0, was_playing |-> FALSE, is_buffered |-> FALSE,
   bpos |-> 0, start_time |-> 0, current_memory |-> 0, level |-> 0,
   ranges |-> <<>>, rendition |-> NoneV, ctx |-> NoneV, is_live |-> FALSE, resp |-> NoneV, retry |-> NoneV,
   pre |-> "-", pos0 |-> 0, segs0 |-> <<>>, ev0 |-> 0, bad |-> NoneV, forced |-> NoneV]

RetInit == [op |-> "-", res |-> "-", pre |-> "-", post |-> "-", bad |-> NoneV,
            forced |-> NoneV, out |-> NoneV]

\* No caller discards a failed set_state, for comparison.
SwallowsNothing(label) == FALSE

\* Labels at which a failed set_state is discarded (`let _ = ...`).
Swallows(label) == label \in {"up_chk", "up_emit"}

\* The task goes on at `label`, queueing for the lock that step awaits.
Goto(t, label, L) ==
  /\ pc' = [pc EXCEPT ![t] = label]
  /\ locks' = Arrive(L, t, label)

\* The operation of t is over with result `res` and returned value `out`.
Finish(t, L, lc, res, out, st) ==
  /\ pc' = [pc EXCEPT ![t] = "idle"]
  /\ stack' = [stack EXCEPT ![t] = <<>>]
  /\ locks' = L
  /\ loc' = [loc EXCEPT ![t] = LocInit]
  /\ ret' = [ret EXCEPT ![t] = [op |-> lc.op, res |-> res, pre |-> lc.pre,
                                post |-> st, bad |-> lc.bad,
                                forced |-> lc.forced, out |-> out]]

\* The procedure in progress returns normally to the label on top of the stack.
\* `lc` is the task's locals after the step, `st` the session state after it.
Return(t, L, lc, st, out) ==
  IF Head(stack[t]) = "idle"
  THEN Finish(t, L, lc, "Ok", out, st)
  ELSE /\ Goto(t, Head(stack[t]), L)
       /\ stack' = [stack EXCEPT ![t] = Tail(@)]
       /\ loc' = [loc EXCEPT ![t] = lc]
       /\ ret' = ret

\* The procedure in progress calls another: go to its first step, return to `back`.
Call(t, L, lc, first, back) ==
  /\ Goto(t, first, L)
  /\ stack' = [stack EXCEPT ![t] = <<back>> \o @]
  /\ loc' = [loc EXCEPT ![t] = lc]
  /\ ret' = ret

\* The procedure in progress goes on at its own next step.
Jump(t, L, lc, next) ==
  /\ Goto(t, next, L)
  /\ stack' = stack
  /\ loc' = [loc EXCEPT ![t] = lc]
  /\ ret' = ret

\* A task begins an operation: its first step is `first`; `backs` are the
\* steps to return to when the operation starts with a call.
\* `pre`, `pos0` and `n` are history: the state and the position at the call
\* and the ordinal of the operation.
Begin(t, lc, first, backs) ==
  /\ pc[t] = "idle"
  /\ Goto(t, first, locks)
  /\ stack' = [stack EXCEPT ![t] = backs \o <<"idle">>]
  /\ loc' = [loc EXCEPT ![t] = [lc EXCEPT !.pre = state, !.pos0 = position,
                                               !.n = nops + 1]]
  /\ nops' = nops + 1
  /\ ret' = ret

\* ---------------------------------------------------------------- emitter
\* analytics.rs:182-184: `*seq += 1; let sequence = *seq;`
BumpStale(s) == s
\* the value of the sequence counter that the new record carries
Bump(s) == s + 1

MkRecord(sq, ev) == [sequence |-> sq, event |-> ev]

\* AnalyticsEmitter::emit, for the task whose locals hold the event (the
\* emitter is built by new(): no beacon, flush_events only logs).
\*   em_seq : sequence.write() is taken and kept to the end of emit;
\*            the counter is incremented and the record built.
\*   em_push: buffer.write(); push; a full buffer is drained whole and handed
\*            to flush_events; event_tx.send(record): with room in the
\*            channel the record goes in and the guards drop.
\*   em_send: the channel was full: send waits for the consumer to make
\*            room, the guard of `sequence` still held.
Emit(t) ==
  /\ pc[t] \in {"em_seq", "em_push", "em_send"}
  /\ Ready(t)
  /\ UNCHANGED <<config, classified, parsed, sessVars, bufVars, abr, applied, abrOut, nops, qoe>>
  /\ IF pc[t] = "em_seq"
     THEN /\ sequence' = sequence + 1
          /\ UNCHANGED <<abuf, flushed, chan>>
          /\ Jump(t, Take(locks, t, "em_seq"),
                  [loc[t] EXCEPT !.record = Some(MkRecord(Bump(sequence), Unwrap(loc[t].event)))],
                  "em_push")
     ELSE IF pc[t] = "em_push"
     THEN LET pushed == Append(abuf, Unwrap(loc[t].record)) IN
          /\ IF Len(pushed) >= max_buffer_size
             THEN abuf' = <<>> /\ flushed' = flushed \o pushed
             ELSE abuf' = pushed /\ flushed' = flushed
          /\ sequence' = sequence
          /\ IF chan < ChannelCapacity
             THEN /\ chan' = chan + 1
                  /\ Return(t, RelW(locks, "seq"),
                            [loc[t] EXCEPT !.event = NoneV, !.record = NoneV], state, NoneV)
             ELSE /\ chan' = chan
                  /\ Jump(t, locks, loc[t], "em_send")
     ELSE /\ chan < ChannelCapacity
          /\ chan' = chan + 1
          /\ UNCHANGED <<sequence, abuf, flushed>>
          /\ Return(t, RelW(locks, "seq"),
                    [loc[t] EXCEPT !.event = NoneV, !.record = NoneV], state, NoneV)

\* The background consumer of AnalyticsEmitter::new receives one record.
Recv ==
  /\ chan > 0
  /\ chan' = chan - 1
  /\ UNCHANGED <<config, classified, parsed, sessVars, bufVars, abr, sequence, abuf, flushed, qoe,
                 taskVars, applied, abrOut>>

\* Every record emit has produced, in the order of the pushes.
Produced == flushed \o abuf

\* An AnalyticsEvent: the variant and its fields (those of other variants are
\* blank); `tid` is history: the index in `applied` of the write a StateChange
\* reports.
Event(kind) == [ev |-> kind, from |-> "-", to |-> "-", position |-> 0, sfrom |-> 0,
                sto |-> 0, is_live |-> FALSE, buffer_level |-> 0, tid |-> 0]

\* A host task calls emit directly (AnalyticsEmitter is a public type).
CallEmit(t, max) ==
  /\ nops < max
  /\ Begin(t, [LocInit EXCEPT !.op = "emit", !.event = Some(Event("Custom"))], "em_seq", <<>>)
  /\ UNCHANGED <<config, classified, parsed, sessVars, bufVars, abr, emVars, applied, abrOut>>

\* -------------------------------------------------------------------- QoE
(* QoeCalculator takes its durations in whole seconds here and gives its    *)
(* score in points; a bitrate sample is <<duration, bitrate>>.  Of a        *)
(* quality switch only the fact is kept, calculate_qoe uses the length of   *)
(* the list.  `score` is history: what the last calculate_qoe returned for  *)
(* the inputs as they are.                                                  *)
QoeNew ==
  [initial_buffer_time |-> 0, rebuffer_count |-> 0, rebuffer_duration |-> 0,
   quality_switches |-> <<>>, bitrate_samples |-> <<>>, score |-> NoneV]

\* bitrate_samples.iter().map(|(d, _)| d).sum()
RECURSIVE TotalDuration(_)
TotalDuration(samples) ==
  IF samples = <<>> THEN 0 ELSE Head(samples)[1] + TotalDuration(Tail(samples))

\* bitrate_samples.iter().map(|(d, b)| d * *b as f64).sum()
RECURSIVE WeightedSum(_)
WeightedSum(samples) ==
  IF samples = <<>> THEN 0
  ELSE Head(samples)[1] * Head(samples)[2] + WeightedSum(Tail(samples))

\* QoeCalculator::average_bitrate: `(weighted_sum / total_duration) as u64`
average_bitrate(samples) ==
  LET total_duration == TotalDuration(samples)
      weighted_sum == WeightedSum(samples)
  IN IF samples = <<>> THEN 0
     ELSE IF total_duration = 0 THEN 0
     ELSE weighted_sum \div total_duration

\* f64::clamp(0.0, 100.0)
ClampScore(x) == IF x < 0 THEN 0 ELSE IF x > 100 THEN 100 ELSE x

\* QoeCalculator::calculate_qoe
calculate_qoe(q) ==
  LET s1 == IF q.initial_buffer_time > 2 THEN 100 - (q.initial_buffer_time - 2) * 5 ELSE 100
      s2 == s1 - q.rebuffer_count * 10
      s3 == s2 - q.rebuffer_duration * 5
      s4 == s3 - Len(q.quality_switches) * 2
      avg_bitrate == average_bitrate(q.bitrate_samples)
      s5 == IF avg_bitrate > 5000000 THEN s4 + 5
            ELSE IF avg_bitrate > 2000000 THEN s4 + 2 ELSE s4
  IN ClampScore(s5)

\* -------------------------------------------------------------------- ABR
(* Bandwidths are in bits per second.  A rendition is                       *)
(* [id, bandwidth, resolution (Option of the width)]; a context is          *)
(* [buffer_level (half seconds), max_bitrate, screen_width (Option),        *)
(*  bandwidth_estimate]: the fields of AbrContext that the rules read.      *)

\* f64::ln of the bandwidths that occur, in thousandths
Ln1e3(b) ==
  CASE b = 800000 -> 13592
    [] b = 2800000 -> 14845
    [] b = 5000000 -> 15425

\* BandwidthMeasurement::throughput_bps; the duration is in half seconds
throughput_bps(bytes, dur) == IF dur > 0 THEN (bytes * 8 * 2) \div dur ELSE 0

\* An estimate that forgets its past: the new sample alone.
EwmaSampleOnly(old, sample, wOld, wNew) == sample

\* ((old as f64 * wOld/10) + (sample as f64 * wNew/10)) as u64
Ewma(old, sample, wOld, wNew) == (old * wOld + sample * wNew) \div 10

\* ThroughputAlgorithm::update; BolaAlgorithm::update does nothing;
\* HybridAlgorithm::update forwards to both.
AlgUpdate(a, sample) ==
  IF a.algorithm = "Bola" THEN a.throughput_estimate
  ELSE IF a.throughput_estimate = 0 THEN sample
  ELSE Ewma(a.throughput_estimate, sample, 7, 3)

\* AbrEngine::record_measurement
record_measurement(a, bytes, dur) ==
  LET sample == throughput_bps(bytes, dur) IN
  [a EXCEPT
     !.history_len = IF a.history_len >= max_history THEN a.history_len ELSE a.history_len + 1,
     !.bandwidth_estimate = IF a.bandwidth_estimate = 0 THEN sample
                            ELSE Ewma(a.bandwidth_estimate, sample, 8, 2),
     !.throughput_estimate = AlgUpdate(a, sample)]

\* Iterator::position(|r| r.id == id): the first index (from 0), as an Option
RECURSIVE PositionFrom(_, _, _)
PositionFrom(rs, id, i) ==
  IF i > Len(rs) THEN NoneV
  ELSE IF rs[i].id = id THEN Some(i - 1)
  ELSE PositionFrom(rs, id, i + 1)

Position(rs, id) == PositionFrom(rs, id, 1)

\* slice::get(i) and slice::first()
Get(rs, i) == IF i + 1 <= Len(rs) THEN Some(rs[i + 1]) ELSE NoneV
First(rs) == Get(rs, 0)

\* ThroughputAlgorithm::select_rendition: the filter of one rendition
ThroughputPasses(r, ctx) ==
  LET available_bandwidth == (ctx.bandwidth_estimate * 8) \div 10
      max_bitrate == IF ctx.max_bitrate > 0
                     THEN Min2(ctx.max_bitrate, available_bandwidth)
                     ELSE available_bandwidth
  IN /\ r.bandwidth <= max_bitrate
     /\ IF IsSome(r.resolution) /\ IsSome(ctx.screen_width)
        THEN Unwrap(r.resolution) <= Unwrap(ctx.screen_width)
        ELSE TRUE

\* Iterator::max_by_key(|r| r.bandwidth) over the renditions that pass:
\* of several greatest elements the last one is returned.
RECURSIVE ThroughputFold(_, _, _, _)
ThroughputFold(rs, ctx, i, best) ==
  IF i > Len(rs) THEN best
  ELSE IF ThroughputPasses(rs[i], ctx)
          /\ (IF IsSome(best) THEN rs[i].bandwidth >= Unwrap(best).bandwidth ELSE TRUE)
       THEN ThroughputFold(rs, ctx, i + 1, Some(rs[i]))
       ELSE ThroughputFold(rs, ctx, i + 1, best)

\* A rule that takes the first rendition that passes, for comparison.
ThroughputFirstFit(rs, ctx) ==
  LET P == {i \in 1..Len(rs) : ThroughputPasses(rs[i], ctx)}
  IN IF P = {} THEN NoneV ELSE Some(rs[CHOOSE i \in P : \A j \in P : i <= j])

ThroughputSelect(rs, ctx) == ThroughputFold(rs, ctx, 1, NoneV)

\* BolaAlgorithm: buffer_min = 5.0 s, in half seconds
buffer_min == 10

\* (v * utility - buffer) in units of 1e-5, with v = 0.93
BolaNum(r, ctx) == 93 * Ln1e3(r.bandwidth) - ctx.buffer_level * 50000
\* (size / 1_000_000 + gamma) in tenths, with gamma = 5.0
BolaDen(r) == r.bandwidth \div 100000 + 50

\* score(r) > score(best); both denominators are positive
BolaBetter(r, best, ctx) == BolaNum(r, ctx) * BolaDen(best) > BolaNum(best, ctx) * BolaDen(r)

RECURSIVE BolaFold(_, _, _, _)
BolaFold(rs, ctx, i, best) ==
  IF i > Len(rs) THEN best
  ELSE IF ctx.max_bitrate > 0 /\ rs[i].bandwidth > ctx.max_bitrate
       THEN BolaFold(rs, ctx, i + 1, best)
       ELSE IF (IF IsSome(best) THEN BolaBetter(rs[i], Unwrap(best), ctx) ELSE TRUE)
            THEN BolaFold(rs, ctx, i + 1, Some(rs[i]))
            ELSE BolaFold(rs, ctx, i + 1, best)

\* A BOLA rule without the low-buffer safety: the best score always.
BolaScoreOnly(rs, ctx) == BolaFold(rs, ctx, 1, NoneV)

\* A BOLA rule that does not look at the max-bitrate cap, for comparison.
BolaUncapped(rs, ctx) ==
  IF rs = <<>> THEN NoneV
  ELSE IF ctx.buffer_level < buffer_min THEN First(rs)
  ELSE BolaFold(rs, [ctx EXCEPT !.max_bitrate = 0], 1, NoneV)

\* BolaAlgorithm::select_rendition
BolaSelect(rs, ctx) ==
  IF rs = <<>> THEN NoneV
  ELSE IF ctx.buffer_level < buffer_min THEN First(rs)
  ELSE BolaFold(rs, ctx, 1, NoneV)

\* HybridAlgorithm: `context.buffer_level < 10.0`, in half seconds
HybridLowBuffer == 20

UnwrapOr0(o) == IF IsSome(o) THEN Unwrap(o) ELSE 0

\* A hybrid rule that always follows the throughput pick, for comparison.
HybridFollowsThroughput(rs, ctx) ==
  IF IsSome(ThroughputSelect(rs, ctx)) THEN ThroughputSelect(rs, ctx)
  ELSE IF IsSome(BolaSelect(rs, ctx)) THEN BolaSelect(rs, ctx)
  ELSE First(rs)

\* HybridAlgorithm::select_rendition
HybridSelect(rs, ctx) ==
  LET throughput_pick == ThroughputSelect(rs, ctx)
      bola_pick == BolaSelect(rs, ctx)
  IN IF IsSome(throughput_pick) /\ IsSome(bola_pick)
     THEN LET t == Unwrap(throughput_pick)
              b == Unwrap(bola_pick)
          IN IF ctx.buffer_level < HybridLowBuffer THEN Some(b)
             ELSE IF t.bandwidth <= b.bandwidth THEN Some(t)
             ELSE Get(rs, (UnwrapOr0(Position(rs, t.id)) + UnwrapOr0(Position(rs, b.id))) \div 2)
     ELSE IF IsSome(throughput_pick) THEN throughput_pick
     ELSE IF IsSome(bola_pick) THEN bola_pick
     ELSE First(rs)

\* The active rule; AbrAlgorithmType::Ml falls back to the throughput rule.
AlgSelect(alg, rs, ctx) ==
  CASE alg = "Bola" -> BolaSelect(rs, ctx)
    [] alg = "Hybrid" -> HybridSelect(rs, ctx)
    [] OTHER -> ThroughputSelect(rs, ctx)

\* A select_rendition without the stability filter: every pick is committed.
select_rendition_eager(a, rs, ctx) ==
  LET selected == AlgSelect(a.algorithm, rs, ctx)
      new_index == IF IsSome(selected) THEN Position(rs, Unwrap(selected).id) ELSE NoneV
  IN IF rs = <<>> \/ ~IsSome(selected) \/ ~IsSome(new_index)
     THEN [abr |-> a, out |-> NoneV]
     ELSE [abr |-> [a EXCEPT !.last_selection = new_index], out |-> selected]

\* AbrEngine::select_rendition: the engine afterwards and the returned Option
select_rendition(a, rs, ctx) ==
  LET selected == AlgSelect(a.algorithm, rs, ctx)
      new_index == IF IsSome(selected) THEN Position(rs, Unwrap(selected).id) ELSE NoneV
  IN IF rs = <<>> \/ ~IsSome(selected) \/ ~IsSome(new_index)
     THEN [abr |-> a, out |-> NoneV]
     ELSE IF IsSome(a.last_selection) /\ Unwrap(new_index) # Unwrap(a.last_selection)
             /\ a.stability_counter + 1 < StabilityLimit
     THEN [abr |-> [a EXCEPT !.stability_counter = @ + 1],
           out |-> Get(rs, Unwrap(a.last_selection))]
     ELSE [abr |-> [a EXCEPT !.stability_counter = IF IsSome(a.last_selection) THEN 0 ELSE @,
                             !.last_selection = new_index],
           out |-> selected]

\* The renditions of the manifests and rendition lists that occur.
Rendition(id, bw, w) == [id |-> id, bandwidth |-> bw, resolution |-> Some(w)]
RLow == Rendition("low", 800000, 640)
RMid == Rendition("mid", 2800000, 1280)
RHigh == Rendition("high", 5000000, 1920)

\* The fields of AbrContext that the rules read.
Context(level, cap, screen, estimate) ==
  [buffer_level |-> level, max_bitrate |-> cap, screen_width |-> screen,
   bandwidth_estimate |-> estimate]

\* History: one select_rendition call, its inputs, the rule's pick, the result.
Selection(rs, ctx, before, r) ==
  Some([op |-> "select", rs |-> rs, ctx |-> ctx, before |-> before,
        pick |-> AlgSelect(before.algorithm, rs, ctx), out |-> r.out, sample |-> 0])

\* ----------------------------------------------------------------- buffer
(* BufferManager.  `segments` is the BTreeMap: a function from sequence      *)
(* number to BufferedSegment [number, duration, size, start_time, end_time,  *)
(* consumed].  The guards of playback_position, buffered_duration and        *)
(* memory_used are either temporaries of one statement or taken while the    *)
(* write guard of `segments` is held, so a step that takes them is atomic;   *)
(* the guard of `segments` is the one held across await points.             *)

MinKey(K) == CHOOSE k \in K : \A j \in K : k <= j
MaxKey(K) == CHOOSE k \in K : \A j \in K : k >= j

Insert(segs, k, b) == [n \in DOMAIN segs \cup {k} |-> IF n = k THEN b ELSE segs[n]]
Remove(segs, K) == [n \in DOMAIN segs \ K |-> segs[n]]

RECURSIVE SumSize(_, _)
SumSize(segs, K) ==
  IF K = {} THEN 0 ELSE LET k == MinKey(K) IN segs[k].size + SumSize(segs, K \ {k})

RECURSIVE SumDuration(_, _)
SumDuration(segs, K) ==
  IF K = {} THEN 0 ELSE LET k == MinKey(K) IN segs[k].duration + SumDuration(segs, K \ {k})

\* add_segment: `segments.iter().last()` gives the start of the new segment
LastEnd(segs) == IF DOMAIN segs = {} THEN 0 ELSE segs[MaxKey(DOMAIN segs)].end_time

BufferedSegment(seg, start_time) ==
  [number |-> seg.number, duration |-> seg.duration, size |-> seg.size,
   start_time |-> start_time, end_time |-> start_time + seg.duration, consumed |-> FALSE]

\* buffer_level: the loop over the map, for the playback position read before
RECURSIVE LevelOver(_, _, _)
LevelOver(segs, K, pos) ==
  IF K = {} THEN 0
  ELSE LET k == MinKey(K)
           b == segs[k]
       IN (IF b.end_time > pos /\ ~b.consumed
           THEN b.end_time - Max2(b.start_time, pos) ELSE 0)
          + LevelOver(segs, K \ {k}, pos)

buffer_level(segs, pos) == LevelOver(segs, DOMAIN segs, pos)

\* A range test that takes the end of a segment as inside it, for comparison.
HasSegmentUpTo(segs, time) ==
  \E k \in DOMAIN segs : time >= segs[k].start_time /\ time <= segs[k].end_time

\* get_segment_at(time).is_some()
HasSegmentAt(segs, time) ==
  \E k \in DOMAIN segs : time >= segs[k].start_time /\ time < segs[k].end_time

\* buffered_ranges: the loop in key order; `cur` is (current_start, current_end)
RECURSIVE RangesOver(_, _, _, _)
RangesOver(segs, K, cur, ranges) ==
  IF K = {} THEN (IF IsSome(cur) THEN Append(ranges, Unwrap(cur)) ELSE ranges)
  ELSE LET k == MinKey(K)
           b == segs[k]
       IN IF b.consumed THEN RangesOver(segs, K \ {k}, cur, ranges)
          ELSE IF ~IsSome(cur)
               THEN RangesOver(segs, K \ {k}, Some(<<b.start_time, b.end_time>>), ranges)
          ELSE IF b.start_time = Unwrap(cur)[2]
               THEN RangesOver(segs, K \ {k}, Some(<<Unwrap(cur)[1], b.end_time>>), ranges)
          ELSE RangesOver(segs, K \ {k}, Some(<<b.start_time, b.end_time>>),
                          Append(ranges, Unwrap(cur)))

buffered_ranges(segs) == RangesOver(segs, DOMAIN segs, NoneV, <<>>)

\* evict_segments: the keys pushed to to_remove, scanning in key order
RECURSIVE ToEvict(_, _, _, _, _)
ToEvict(segs, K, pos, needed_bytes, freed) ==
  IF K = {} \/ freed >= needed_bytes THEN {}
  ELSE LET k == MinKey(K)
           b == segs[k]
       IN IF b.consumed \/ b.end_time < pos - EvictBehind
          THEN {k} \cup ToEvict(segs, K \ {k}, pos, needed_bytes, freed + b.size)
          ELSE ToEvict(segs, K \ {k}, pos, needed_bytes, freed)

\* cleanup_consumed: the keys collected into to_remove
ToCleanup(segs, pos) ==
  {k \in DOMAIN segs : segs[k].consumed /\ segs[k].end_time < pos - CleanupBehind}

\* `segments`, `memory_used` and `buffered_duration` after the keys K are removed
RemoveAll(K) ==
  /\ segments' = Remove(segments, K)
  /\ memory_used' = memory_used - SumSize(segments, K)
  /\ buffered_duration' = buffered_duration - SumDuration(segments, K)

\* What no BufferManager method touches.
BufferFrame == UNCHANGED <<config, classified, parsed, sessVars, abr, emVars, applied, abrOut, nops>>

\* BufferManager::add_segment(loc.seg)
\*   as_mem : memory_used is read; over the limit, evict_segments is called.
\*   as_last: segments.read(); the end of the last stored segment; guard dropped.
\*   as_ins : segments.write(); insert; both counters are increased.
AddSegment(t) ==
  /\ pc[t] \in {"as_mem", "as_last", "as_ins"}
  /\ Ready(t)
  /\ BufferFrame
  /\ UNCHANGED playback_position
  /\ LET seg == Unwrap(loc[t].seg) IN
     CASE pc[t] = "as_mem" ->
            /\ UNCHANGED <<segments, buffered_duration, memory_used>>
            /\ IF memory_used + seg.size > config.max_memory_bytes
               THEN Call(t, locks, [loc[t] EXCEPT !.current_memory = memory_used],
                         "ev_pos", "as_last")
               ELSE Jump(t, locks, [loc[t] EXCEPT !.current_memory = memory_used], "as_last")
       [] pc[t] = "as_last" ->
            /\ UNCHANGED <<segments, buffered_duration, memory_used>>
            /\ Jump(t, Pass(locks, t, "as_last"),
                    [loc[t] EXCEPT !.start_time = LastEnd(segments)], "as_ins")
       [] pc[t] = "as_ins" ->
            /\ segments' = Insert(segments, seg.number, BufferedSegment(seg, loc[t].start_time))
            /\ buffered_duration' = buffered_duration + seg.duration
            /\ memory_used' = memory_used + seg.size
            /\ Return(t, Pass(locks, t, "as_ins"), loc[t], state, NoneV)

\* BufferManager::evict_segments(needed_bytes = the size of loc.seg)
EvictSegments(t) ==
  /\ pc[t] \in {"ev_pos", "ev_seg"}
  /\ Ready(t)
  /\ BufferFrame
  /\ UNCHANGED playback_position
  /\ IF pc[t] = "ev_pos"
     THEN /\ UNCHANGED <<segments, buffered_duration, memory_used>>
          /\ Jump(t, locks, [loc[t] EXCEPT !.bpos = playback_position], "ev_seg")
     ELSE /\ RemoveAll(ToEvict(segments, DOMAIN segments, loc[t].bpos,
                               Unwrap(loc[t].seg).size, 0))
          /\ Return(t, Pass(locks, t, "ev_seg"), [loc[t] EXCEPT !.bpos = 0], state, NoneV)

\* BufferManager::consume_segment(loc.p)
ConsumeSegment(t) ==
  /\ pc[t] = "cs_seg"
  /\ Ready(t)
  /\ BufferFrame
  /\ UNCHANGED <<playback_position, buffered_duration, memory_used>>
  /\ segments' = IF loc[t].p \in DOMAIN segments
                 THEN [segments EXCEPT ![loc[t].p].consumed = TRUE]
                 ELSE segments
  /\ Return(t, Pass(locks, t, "cs_seg"), loc[t], state, NoneV)

\* BufferManager::update_position(loc.p), which ends in cleanup_consumed
BufferUpdatePosition(t) ==
  /\ pc[t] = "bu_pos"
  /\ BufferFrame
  /\ UNCHANGED <<segments, buffered_duration, memory_used>>
  /\ playback_position' = loc[t].p
  /\ Jump(t, locks, loc[t], "cc_seg")

\* BufferManager::cleanup_consumed(loc.p)
CleanupConsumed(t) ==
  /\ pc[t] = "cc_seg"
  /\ Ready(t)
  /\ BufferFrame
  /\ UNCHANGED playback_position
  /\ RemoveAll(ToCleanup(segments, loc[t].p))
  /\ Return(t, Pass(locks, t, "cc_seg"), loc[t], state, NoneV)

\* BufferManager::buffer_level (also behind is_buffer_healthy, can_start_playback)
BufferLevel(t) ==
  /\ pc[t] \in {"bl_pos", "bl_seg"}
  /\ Ready(t)
  /\ BufferFrame
  /\ UNCHANGED bufVars
  /\ IF pc[t] = "bl_pos"
     THEN Jump(t, locks, [loc[t] EXCEPT !.bpos = playback_position], "bl_seg")
     ELSE LET level == buffer_level(segments, loc[t].bpos) IN
          Return(t, Pass(locks, t, "bl_seg"), [loc[t] EXCEPT !.level = level, !.bpos = 0],
                 state, Some(level))

\* BufferManager::buffered_ranges
BufferedRanges(t) ==
  /\ pc[t] = "br_seg"
  /\ Ready(t)
  /\ BufferFrame
  /\ UNCHANGED bufVars
  /\ Return(t, Pass(locks, t, "br_seg"), [loc[t] EXCEPT !.ranges = buffered_ranges(segments)],
            state, Some(buffered_ranges(segments)))

\* BufferManager::clear
Clear(t) ==
  /\ pc[t] = "cl_seg"
  /\ Ready(t)
  /\ BufferFrame
  /\ UNCHANGED playback_position
  /\ segments' = <<>>
  /\ buffered_duration' = 0
  /\ memory_used' = 0
  /\ Return(t, Pass(locks, t, "cl_seg"), loc[t], state, NoneV)

\* BufferManager::seek(loc.clamped)
BufferSeek(t) ==
  /\ pc[t] \in {"bs_pos", "bs_get", "bs_ret"}
  /\ Ready(t)
  /\ BufferFrame
  /\ UNCHANGED <<segments, buffered_duration, memory_used>>
  /\ CASE pc[t] = "bs_pos" ->
            /\ playback_position' = loc[t].clamped
            /\ Jump(t, locks, loc[t], "bs_get")
       [] pc[t] = "bs_get" ->
            /\ UNCHANGED playback_position
            /\ LET is_buffered == HasSegmentAt(segments, loc[t].clamped)
                   lc == [loc[t] EXCEPT !.is_buffered = is_buffered]
               IN IF is_buffered
                  THEN Return(t, Pass(locks, t, "bs_get"), lc, state, Some(TRUE))
                  ELSE Call(t, Pass(locks, t, "bs_get"), lc, "cl_seg", "bs_ret")
       [] pc[t] = "bs_ret" ->
            /\ UNCHANGED playback_position
            /\ Return(t, locks, loc[t], state, Some(loc[t].is_buffered))

\* BufferManager::stats: the read guard taken first is held to the end, and
\* buffered_ranges and buffer_level each request the read lock again.
Stats(t) ==
  /\ pc[t] \in {"sx_outer", "sx_lvl", "sx_end"}
  /\ Ready(t)
  /\ BufferFrame
  /\ UNCHANGED bufVars
  /\ CASE pc[t] = "sx_outer" -> Call(t, Take(locks, t, "sx_outer"), loc[t], "br_seg", "sx_lvl")
       [] pc[t] = "sx_lvl" -> Call(t, locks, loc[t], "bl_pos", "sx_end")
       [] pc[t] = "sx_end" ->
            Return(t, RelR(locks, t, "segments"), loc[t], state,
                   Some([segment_count |-> Cardinality(DOMAIN segments),
                         buffer_level |-> loc[t].level,
                         memory_used |-> memory_used,
                         buffered_ranges |-> loc[t].ranges,
                         playback_position |-> playback_position]))

\* ---------------------------------------------------------------- session
(* PlayerSession, with analytics enabled (PlayerConfig's default).  The      *)
(* guards of `state` and `current_rendition` are temporaries of a single     *)
(* statement, so the steps that take them are atomic and need no lock here.  *)

\* PlayerState::can_transition_to
Edges ==
  {<<"Idle", "Loading">>,
   <<"Loading", "Buffering">>, <<"Loading", "Error">>,
   <<"Buffering", "Playing">>, <<"Buffering", "Paused">>, <<"Buffering", "Error">>,
   <<"Playing", "Paused">>, <<"Playing", "Buffering">>, <<"Playing", "Seeking">>,
   <<"Playing", "Ended">>, <<"Playing", "Error">>,
   <<"Paused", "Playing">>, <<"Paused", "Seeking">>, <<"Paused", "Idle">>,
   <<"Seeking", "Buffering">>, <<"Seeking", "Playing">>, <<"Seeking", "Error">>,
   <<"Ended", "Idle">>, <<"Ended", "Seeking">>,
   <<"Error", "Idle">>, <<"Error", "Loading">>}

\* A state machine that permits every transition, for comparison.
AnyTransition(s, target) == TRUE

can_transition_to(s, target) == <<s, target>> \in Edges

\* One write of `state`, as recorded in `applied`.
Applied(from, seen, to, lc, forced) ==
  [from |-> from, seen |-> seen, to |-> to, op |-> lc.op, n |-> lc.n, forced |-> forced]

\* PlayerSession::set_state(loc.new_state)
\*   ss_read : state.read(); the edge is checked against the value read.
\*   ss_write: state.write(); the new state is stored and sent on the watch.
\*   ss_pos  : position.read(), held while emit runs.
\*   ss_done : the position guard is dropped.
SetState(t) ==
  /\ pc[t] \in {"ss_read", "ss_write", "ss_pos", "ss_done"}
  /\ Ready(t)
  /\ UNCHANGED <<config, classified, parsed, position, duration, manifest, current_rendition, stall_count,
                 bufVars, abr, emVars, abrOut, nops>>
  /\ CASE pc[t] = "ss_read" ->
            /\ UNCHANGED <<state, state_tx, applied>>
            /\ IF can_transition_to(state, loc[t].new_state)
               THEN Jump(t, locks, [loc[t] EXCEPT !.current = state], "ss_write")
               ELSE LET lc == [loc[t] EXCEPT
                                 !.bad = IF IsSome(@) THEN @
                                         ELSE Some(<<state, loc[t].new_state>>),
                                 !.new_state = "-"]
                    IN IF Swallows(Head(stack[t]))
                       THEN Return(t, locks, lc, state, NoneV)
                       ELSE Finish(t, DropAll(locks, t), lc, "InvalidStateTransition",
                                   NoneV, state)
       [] pc[t] = "ss_write" ->
            /\ state' = loc[t].new_state
            /\ state_tx' = loc[t].new_state
            /\ applied' = Append(applied, Applied(state, loc[t].current, loc[t].new_state,
                                                  loc[t], FALSE))
            /\ Jump(t, locks, [loc[t] EXCEPT !.tid = Len(applied) + 1], "ss_pos")
       [] pc[t] = "ss_pos" ->
            /\ UNCHANGED <<state, state_tx, applied>>
            /\ Call(t, Take(locks, t, "ss_pos"),
                    [loc[t] EXCEPT !.event = Some([Event("StateChange") EXCEPT
                                                     !.from = loc[t].current,
                                                     !.to = loc[t].new_state,
                                                     !.position = position,
                                                     !.tid = loc[t].tid])],
                    "em_seq", "ss_done")
       [] pc[t] = "ss_done" ->
            /\ UNCHANGED <<state, state_tx, applied>>
            /\ Return(t, RelR(locks, t, "position"),
                      [loc[t] EXCEPT !.new_state = "-", !.current = "-", !.tid = 0],
                      state, NoneV)

\* PlayerSession::load(url), after its opening set_state(Loading); loc.m is
\* what the parser makes of the url (None: fetching or parsing fails).
\* create_abr_context is cx_man..cx_abr.
Load(t) ==
  /\ pc[t] \in {"ld_parse", "ld_store", "ld_dur", "cx_man", "cx_abr",
                "ld_abr", "ld_cur", "ld_emit", "ld_buf", "ld_end"}
  /\ Ready(t)
  /\ UNCHANGED <<config, classified, parsed, state, state_tx, position, stall_count, bufVars, emVars,
                 applied, nops>>
  /\ LET m == Unwrap(loc[t].m) IN
     CASE pc[t] = "ld_parse" ->
            /\ UNCHANGED <<manifest, duration, current_rendition, abr, abrOut>>
            /\ IF IsSome(loc[t].m)
               THEN Jump(t, locks, loc[t], "ld_store")
               ELSE Finish(t, DropAll(locks, t), loc[t], "ManifestError", NoneV, state)
       [] pc[t] = "ld_store" ->
            /\ manifest' = Some(m)
            /\ UNCHANGED <<duration, current_rendition, abr, abrOut>>
            /\ Jump(t, Pass(locks, t, "ld_store"), loc[t],
                    IF IsSome(m.duration) THEN "ld_dur" ELSE "cx_man")
       [] pc[t] = "ld_dur" ->
            /\ duration' = m.duration
            /\ UNCHANGED <<manifest, current_rendition, abr, abrOut>>
            /\ Jump(t, Pass(locks, t, "ld_dur"), loc[t], "cx_man")
       [] pc[t] = "cx_man" ->
            /\ UNCHANGED <<manifest, duration, current_rendition, abr, abrOut>>
            /\ Call(t, Take(locks, t, "cx_man"),
                    [loc[t] EXCEPT !.is_live = IF IsSome(manifest)
                                               THEN Unwrap(manifest).is_live ELSE FALSE],
                    "bl_pos", "cx_abr")
       [] pc[t] = "cx_abr" ->
            /\ UNCHANGED <<manifest, duration, current_rendition, abr, abrOut>>
            /\ Jump(t, RelR(Pass(locks, t, "cx_abr"), t, "manifest"),
                    [loc[t] EXCEPT !.ctx = Some(Context(loc[t].level, config.max_bitrate,
                                                        NoneV, abr.bandwidth_estimate)),
                                   !.level = 0, !.is_live = FALSE],
                    "ld_abr")
       [] pc[t] = "ld_abr" ->
            LET r == select_rendition(abr, m.renditions, Unwrap(loc[t].ctx)) IN
            /\ abr' = r.abr
            /\ abrOut' = Selection(m.renditions, Unwrap(loc[t].ctx), abr, r)
            /\ UNCHANGED <<manifest, duration, current_rendition>>
            /\ Jump(t, Take(locks, t, "ld_abr"),
                    [loc[t] EXCEPT !.rendition = r.out, !.ctx = NoneV],
                    IF IsSome(r.out) THEN "ld_cur" ELSE "ld_emit")
       [] pc[t] = "ld_cur" ->
            /\ current_rendition' = loc[t].rendition
            /\ UNCHANGED <<manifest, duration, abr, abrOut>>
            /\ Jump(t, locks, loc[t], "ld_emit")
       [] pc[t] = "ld_emit" ->
            /\ UNCHANGED <<manifest, duration, current_rendition, abr, abrOut>>
            /\ Call(t, locks,
                    [loc[t] EXCEPT !.event = Some([Event("Load") EXCEPT !.is_live = m.is_live])],
                    "em_seq", "ld_buf")
       [] pc[t] = "ld_buf" ->
            /\ UNCHANGED <<manifest, duration, current_rendition, abr, abrOut>>
            /\ Call(t, locks, [loc[t] EXCEPT !.new_state = "Buffering"], "ss_read", "ld_end")
       [] pc[t] = "ld_end" ->
            /\ UNCHANGED <<manifest, duration, current_rendition, abr, abrOut>>
            /\ Return(t, RelW(locks, "abr"), loc[t], state, NoneV)

\* What play, pause and the reads of the session leave alone.
ReadOnlyFrame == UNCHANGED <<config, classified, parsed, sessVars, bufVars, abr, emVars, applied, abrOut, nops>>

\* PlayerSession::play
Play(t) ==
  /\ pc[t] \in {"pl_state", "pl_can", "pl_ended", "pl_emit", "pl_end"}
  /\ Ready(t)
  /\ ReadOnlyFrame
  /\ LET toPlaying == [loc[t] EXCEPT !.new_state = "Playing"] IN
     CASE pc[t] = "pl_state" ->
            (CASE state = "Buffering" -> Call(t, locks, loc[t], "bl_pos", "pl_can")
               [] state = "Paused" -> Call(t, locks, toPlaying, "ss_read", "pl_emit")
               [] state = "Ended" -> Call(t, locks, [loc[t] EXCEPT !.p = 0], "sk_dur", "pl_ended")
               [] OTHER -> Jump(t, locks, loc[t], "pl_emit"))
       [] pc[t] = "pl_can" ->
            IF loc[t].level >= config.min_buffer_time
            THEN Call(t, locks, [toPlaying EXCEPT !.level = 0], "ss_read", "pl_emit")
            ELSE Jump(t, locks, [loc[t] EXCEPT !.level = 0], "pl_emit")
       [] pc[t] = "pl_ended" -> Call(t, locks, toPlaying, "ss_read", "pl_emit")
       [] pc[t] = "pl_emit" ->
            Call(t, Take(locks, t, "pl_emit"),
                 [loc[t] EXCEPT !.event = Some([Event("Play") EXCEPT !.position = position])],
                 "em_seq", "pl_end")
       [] pc[t] = "pl_end" -> Return(t, RelR(locks, t, "position"), loc[t], state, NoneV)

\* PlayerSession::pause
Pause(t) ==
  /\ pc[t] \in {"pa_state", "pa_emit", "pa_end"}
  /\ Ready(t)
  /\ ReadOnlyFrame
  /\ CASE pc[t] = "pa_state" ->
            IF state = "Playing"
            THEN Call(t, locks, [loc[t] EXCEPT !.new_state = "Paused"], "ss_read", "pa_emit")
            ELSE Return(t, locks, loc[t], state, NoneV)
       [] pc[t] = "pa_emit" ->
            Call(t, Take(locks, t, "pa_emit"),
                 [loc[t] EXCEPT !.event = Some([Event("Pause") EXCEPT !.position = position])],
                 "em_seq", "pa_end")
       [] pc[t] = "pa_end" -> Return(t, RelR(locks, t, "position"), loc[t], state, NoneV)

\* A seek that takes the requested position as it is.
Unclamped(p, dur) == p

\* f64::clamp(0.0, dur) and f64::max(0.0)
Clamp(p, dur) == IF IsSome(dur) THEN Max2(0, Min2(p, Unwrap(dur))) ELSE Max2(p, 0)

\* PlayerSession::seek(loc.p); the read guard of `duration` taken first is held
\* to the end.  (The position read for the log line has no effect.)
Seek(t) ==
  /\ pc[t] \in {"sk_dur", "sk_state", "sk_buf", "sk_pos", "sk_emit", "sk_fin", "sk_ret"}
  /\ Ready(t)
  /\ UNCHANGED <<config, classified, parsed, state, state_tx, duration, manifest, current_rendition, stall_count,
                 bufVars, abr, emVars, applied, abrOut, nops>>
  /\ CASE pc[t] = "sk_dur" ->
            /\ UNCHANGED position
            /\ Jump(t, Take(locks, t, "sk_dur"),
                    [loc[t] EXCEPT !.clamped = Clamp(loc[t].p, duration)], "sk_state")
       [] pc[t] = "sk_state" ->
            /\ UNCHANGED position
            /\ Call(t, locks,
                    [loc[t] EXCEPT !.was_playing = (state = "Playing"), !.new_state = "Seeking"],
                    "ss_read", "sk_buf")
       [] pc[t] = "sk_buf" ->
            /\ UNCHANGED position
            /\ Call(t, locks, loc[t], "bs_pos", "sk_pos")
       [] pc[t] = "sk_pos" ->
            /\ position' = loc[t].clamped
            /\ Jump(t, Pass(locks, t, "sk_pos"), loc[t], "sk_emit")
       [] pc[t] = "sk_emit" ->
            /\ UNCHANGED position
            /\ Call(t, Take(locks, t, "sk_emit"),
                    [loc[t] EXCEPT !.event = Some([Event("Seek") EXCEPT
                                                     !.sfrom = position,
                                                     !.sto = loc[t].clamped])],
                    "em_seq", "sk_fin")
       [] pc[t] = "sk_fin" ->
            /\ UNCHANGED position
            /\ Call(t, RelR(locks, t, "position"),
                    [loc[t] EXCEPT !.new_state = IF loc[t].is_buffered /\ loc[t].was_playing
                                                 THEN "Playing" ELSE "Buffering"],
                    "ss_read", "sk_ret")
       [] pc[t] = "sk_ret" ->
            /\ UNCHANGED position
            /\ Return(t, RelR(locks, t, "duration"),
                      [loc[t] EXCEPT !.clamped = 0, !.was_playing = FALSE,
                                     !.is_buffered = FALSE],
                      state, NoneV)

\* PlayerSession::stop, after its opening buffer.clear(): the state is written
\* without set_state.
Stop(t) ==
  /\ pc[t] \in {"st_pos", "st_man", "st_cur", "st_state", "st_emit", "st_end"}
  /\ Ready(t)
  /\ UNCHANGED <<config, classified, parsed, duration, stall_count, bufVars, abr, emVars, abrOut, nops>>
  /\ CASE pc[t] = "st_pos" ->
            /\ position' = 0
            /\ UNCHANGED <<state, state_tx, manifest, current_rendition, applied>>
            /\ Jump(t, Pass(locks, t, "st_pos"), loc[t], "st_man")
       [] pc[t] = "st_man" ->
            /\ manifest' = NoneV
            /\ UNCHANGED <<state, state_tx, position, current_rendition, applied>>
            /\ Jump(t, Pass(locks, t, "st_man"), loc[t], "st_cur")
       [] pc[t] = "st_cur" ->
            /\ current_rendition' = NoneV
            /\ UNCHANGED <<state, state_tx, position, manifest, applied>>
            /\ Jump(t, locks, loc[t], "st_state")
       [] pc[t] = "st_state" ->
            /\ state' = "Idle"
            /\ state_tx' = "Idle"
            /\ applied' = Append(applied, Applied(state, state, "Idle", loc[t], TRUE))
            /\ UNCHANGED <<position, manifest, current_rendition>>
            /\ Jump(t, locks, [loc[t] EXCEPT !.forced = Some(<<state, "Idle">>)], "st_emit")
       [] pc[t] = "st_emit" ->
            /\ UNCHANGED <<state, state_tx, position, manifest, current_rendition, applied>>
            /\ Call(t, Take(locks, t, "st_emit"),
                    [loc[t] EXCEPT !.event = Some([Event("End") EXCEPT !.position = position])],
                    "em_seq", "st_end")
       [] pc[t] = "st_end" ->
            /\ UNCHANGED <<state, state_tx, position, manifest, current_rendition, applied>>
            /\ Return(t, RelR(locks, t, "position"), loc[t], state, NoneV)

\* PlayerSession::update_position(loc.p); both set_state results are discarded.
\* The read guard of `duration` lives to the end of the `if let` block, the
\* write guard of `metrics` to the end of the rebuffer block.
UpdatePosition(t) ==
  /\ pc[t] \in {"up_pos", "up_dur", "up_chk", "up_healthy", "up_h2", "up_met", "up_emit",
                "up_emit2", "up_end"}
  /\ Ready(t)
  /\ UNCHANGED <<config, classified, parsed, state, state_tx, duration, manifest, current_rendition,
                 bufVars, abr, emVars, applied, abrOut, nops>>
  /\ CASE pc[t] = "up_pos" ->
            /\ position' = loc[t].p
            /\ UNCHANGED stall_count
            /\ Call(t, Pass(locks, t, "up_pos"), loc[t], "bu_pos", "up_dur")
       [] pc[t] = "up_dur" ->
            /\ UNCHANGED <<position, stall_count>>
            /\ IF IsSome(duration) /\ loc[t].p >= Unwrap(duration) - EndedMargin
               THEN Call(t, Take(locks, t, "up_dur"), [loc[t] EXCEPT !.new_state = "Ended"],
                         "ss_read", "up_chk")
               ELSE Jump(t, Pass(locks, t, "up_dur"), loc[t], "up_healthy")
       [] pc[t] = "up_chk" ->
            /\ UNCHANGED <<position, stall_count>>
            /\ Jump(t, RelR(locks, t, "duration"), loc[t], "up_healthy")
       [] pc[t] = "up_healthy" ->
            /\ UNCHANGED <<position, stall_count>>
            /\ IF state = "Playing"
               THEN Call(t, locks, loc[t], "bl_pos", "up_h2")
               ELSE Return(t, locks, loc[t], state, NoneV)
       [] pc[t] = "up_h2" ->
            /\ UNCHANGED <<position, stall_count>>
            /\ IF loc[t].level < config.rebuffer_threshold
               THEN Jump(t, locks, [loc[t] EXCEPT !.level = 0], "up_met")
               ELSE Return(t, locks, loc[t], state, NoneV)
       [] pc[t] = "up_met" ->
            /\ stall_count' = stall_count + 1
            /\ UNCHANGED position
            /\ Call(t, Take(locks, t, "up_met"), [loc[t] EXCEPT !.new_state = "Buffering"],
                    "ss_read", "up_emit")
       [] pc[t] = "up_emit" ->
            /\ UNCHANGED <<position, stall_count>>
            /\ Call(t, locks, loc[t], "bl_pos", "up_emit2")
       [] pc[t] = "up_emit2" ->
            /\ UNCHANGED <<position, stall_count>>
            /\ Call(t, locks,
                    [loc[t] EXCEPT !.event = Some([Event("Rebuffer") EXCEPT
                                                     !.position = loc[t].p,
                                                     !.buffer_level = loc[t].level])],
                    "em_seq", "up_end")
       [] pc[t] = "up_end" ->
            /\ UNCHANGED <<position, stall_count>>
            /\ Return(t, RelW(locks, "metrics"), loc[t], state, NoneV)

\* PlayerSession::fetch_segment; loc.resp is what the HTTP client yields: the
\* bytes of the body and the time taken (half seconds), or None when the
\* request or the reading of the body fails.  loc.retry is what the server
\* would yield to a further request for the segment; the code makes none.
\*   fs_get: the request; an error is returned to the caller as it is.
\*   fs_abr: abr.write(), record_measurement; the data is returned.
FetchSegment(t) ==
  /\ pc[t] \in {"fs_get", "fs_abr"}
  /\ Ready(t)
  /\ UNCHANGED <<config, classified, parsed, sessVars, bufVars, emVars, applied, nops>>
  /\ IF pc[t] = "fs_get"
     THEN /\ UNCHANGED <<abr, abrOut>>
          /\ IF IsSome(loc[t].resp)
             THEN Jump(t, locks, loc[t], "fs_abr")
             ELSE Finish(t, DropAll(locks, t), loc[t], "SegmentFetch", NoneV, state)
     ELSE LET r == Unwrap(loc[t].resp) IN
          /\ abr' = record_measurement(abr, r.bytes, r.dur)
          /\ abrOut' = Some([op |-> "record", rs |-> <<>>, ctx |-> NoneV, before |-> abr,
                             pick |-> NoneV, out |-> NoneV,
                             sample |-> throughput_bps(r.bytes, r.dur)])
          /\ Return(t, Pass(locks, t, "fs_abr"), loc[t], state, Some(r.bytes))

\* ------------------------------------------------------ calls of the host
ManifestVod == [renditions |-> <<RLow, RMid, RHigh>>, is_live |-> FALSE, duration |-> Some(8)]
ManifestLive == [renditions |-> <<RLow, RMid, RHigh>>, is_live |-> TRUE, duration |-> NoneV]
ManifestInputs == {NoneV, Some(ManifestVod), Some(ManifestLive)}
SeekArgs == {-2, 4, 12}
UpdateArgs == {2, 8}

\* What the HTTP client yields for a segment: failure, or a body and its time.
FetchOutcomes == {NoneV, Some([bytes |-> 500000, dur |-> 1])}

CallFrame == UNCHANGED <<config, classified, parsed, sessVars, bufVars, abr, emVars, applied, abrOut>>

CallFetchSegment(t, max) ==
  /\ nops < max
  /\ \E r, again \in FetchOutcomes :
       Begin(t, [LocInit EXCEPT !.op = "fetch_segment", !.resp = r, !.retry = again],
             "fs_get", <<>>)
  /\ CallFrame

\* `ev0` is history: the number of records produced before the call.
CallLoad(t, max, manifests) ==
  /\ nops < max
  /\ \E m \in manifests : Begin(t, [LocInit EXCEPT !.op = "load", !.m = m, !.new_state = "Loading",
                                                   !.ev0 = Len(Produced)],
                                  "ss_read", <<"ld_parse">>)
  /\ CallFrame

CallPlay(t, max) ==
  /\ nops < max
  /\ Begin(t, [LocInit EXCEPT !.op = "play"], "pl_state", <<>>)
  /\ CallFrame

CallPause(t, max) ==
  /\ nops < max
  /\ Begin(t, [LocInit EXCEPT !.op = "pause"], "pa_state", <<>>)
  /\ CallFrame

CallSeek(t, max, args) ==
  /\ nops < max
  /\ \E p \in args : Begin(t, [LocInit EXCEPT !.op = "seek", !.p = p], "sk_dur", <<>>)
  /\ CallFrame

CallStop(t, max) ==
  /\ nops < max
  /\ Begin(t, [LocInit EXCEPT !.op = "stop"], "cl_seg", <<"st_pos">>)
  /\ CallFrame

CallUpdatePosition(t, max, args) ==
  /\ nops < max
  /\ \E p \in args :
       Begin(t, [LocInit EXCEPT !.op = "update_position", !.p = p], "up_pos", <<>>)
  /\ CallFrame

\* --------------------------------------------------------------- initial
DefaultConfig ==
  [min_buffer_time |-> 20, rebuffer_threshold |-> 4, max_memory_bytes |-> 4,
   abr_algorithm |-> "Bola", max_bitrate |-> 0, retry_attempts |-> 3]

AbrNew(alg) ==
  [algorithm |-> alg, bandwidth_estimate |-> 0, last_selection |-> NoneV,
   stability_counter |-> 0, throughput_estimate |-> 0, history_len |-> 0]

\* PlayerSession::new: every field, and the histories but the one of the ABR calls
InitBase(cfg) ==
  /\ config = cfg
  /\ state = "Idle"
  /\ state_tx = "Idle"
  /\ position = 0
  /\ duration = NoneV
  /\ manifest = NoneV
  /\ current_rendition = NoneV
  /\ stall_count = 0
  /\ segments = <<>>
  /\ playback_position = 0
  /\ buffered_duration = 0
  /\ memory_used = 0
  /\ abr = AbrNew(cfg.abr_algorithm)
  /\ sequence = 0
  /\ abuf = <<>>
  /\ chan = 0
  /\ flushed = <<>>
  /\ qoe = QoeNew
  /\ classified = <<>>
  /\ parsed = NoneV
  /\ locks = [n \in LockNames |-> FreeLock]
  /\ pc = [t \in Tasks |-> "idle"]
  /\ stack = [t \in Tasks |-> <<>>]
  /\ loc = [t \in Tasks |-> LocInit]
  /\ nops = 0
  /\ applied = <<>>
  /\ ret = [t \in Tasks |-> RetInit]

InitWith(cfg) == InitBase(cfg) /\ abrOut = NoneV

\* ------------------------------------------------------------ the session
MinBufferTimes == {0, 20}
RebufferThresholds == {0, 4}

InitSession ==
  \E mb \in MinBufferTimes, rt \in RebufferThresholds :
    InitWith([DefaultConfig EXCEPT !.min_buffer_time = mb, !.rebuffer_threshold = rt])

\* The concurrent session is explored with fewer argument values.
InitConcurrent ==
  \E mb \in MinBufferTimes : InitWith([DefaultConfig EXCEPT !.min_buffer_time = mb])
ConcurrentManifests == {NoneV, Some(ManifestVod)}
ConcurrentSeekArgs == {4}
ConcurrentUpdateArgs == {8}

\* One step of the operation that task t is running.
Step(t) ==
  \/ SetState(t) \/ Emit(t) \/ Load(t) \/ Play(t) \/ Pause(t) \/ Seek(t) \/ Stop(t)
  \/ UpdatePosition(t) \/ BufferLevel(t) \/ BufferSeek(t) \/ Clear(t)
  \/ BufferUpdatePosition(t) \/ CleanupConsumed(t)

\* Tasks call the session concurrently.
Next ==
  \E t \in Tasks :
    \/ CallLoad(t, MaxOps, ConcurrentManifests) \/ CallPlay(t, MaxOps)
    \/ CallPause(t, MaxOps) \/ CallSeek(t, MaxOps, ConcurrentSeekArgs)
    \/ CallStop(t, MaxOps) \/ CallUpdatePosition(t, MaxOps, ConcurrentUpdateArgs)
    \/ Step(t)

Spec == InitConcurrent /\ [][Next]_vars

\* The host loads a VOD manifest and starts playback on a session that needs
\* no buffer to start; once play has returned, tasks call the session
\* concurrently.
InitStarted == InitWith([DefaultConfig EXCEPT !.min_buffer_time = 0])
Started == nops >= 2 /\ (nops = 2 => \A t \in Tasks : pc[t] = "idle")
NextStarted ==
  \/ nops = 0 /\ CallLoad(1, MaxStartedOps, {Some(ManifestVod)})
  \/ nops = 1 /\ CallPlay(1, MaxStartedOps)
  \/ \E t \in Tasks :
       \/ Started /\ CallPlay(t, MaxStartedOps)
       \/ Started /\ CallPause(t, MaxStartedOps)
       \/ Started /\ CallSeek(t, MaxStartedOps, ConcurrentSeekArgs)
       \/ Started /\ CallStop(t, MaxStartedOps)
       \/ Started /\ CallUpdatePosition(t, MaxStartedOps, UpdateArgs)
       \/ Step(t)

SpecStarted == InitStarted /\ [][NextStarted]_vars

\* One task calls the session: each operation returns before the next starts.
NextSeq ==
  \/ CallLoad(1, MaxSeqOps, ManifestInputs) \/ CallPlay(1, MaxSeqOps)
  \/ CallPause(1, MaxSeqOps) \/ CallSeek(1, MaxSeqOps, SeekArgs)
  \/ CallStop(1, MaxSeqOps) \/ CallUpdatePosition(1, MaxSeqOps, UpdateArgs)
  \/ CallFetchSegment(1, MaxSeqOps)
  \/ Step(1) \/ FetchSegment(1)

SpecSeq == InitSession /\ [][NextSeq]_vars

\* ------------------------------------------------- the buffer on its own
Segment(number, dur, size) == [number |-> number, duration |-> dur, size |-> size]
SegmentInputs == {Segment(1, 8, 2), Segment(2, 4, 2)}
SegmentNumbers == {1, 2}
BufferPositions == {4, 30}

CallAddSegment(t, max) ==
  /\ nops < max
  /\ \E seg \in SegmentInputs :
       Begin(t, [LocInit EXCEPT !.op = "add_segment", !.seg = Some(seg)], "as_mem", <<>>)
  /\ CallFrame

CallConsumeSegment(t, max) ==
  /\ nops < max
  /\ \E k \in SegmentNumbers :
       Begin(t, [LocInit EXCEPT !.op = "consume_segment", !.p = k], "cs_seg", <<>>)
  /\ CallFrame

CallBufferUpdatePosition(t, max) ==
  /\ nops < max
  /\ \E p \in BufferPositions :
       Begin(t, [LocInit EXCEPT !.op = "buffer.update_position", !.p = p], "bu_pos", <<>>)
  /\ CallFrame

\* `segs0` is history: the stored segments at the call.
CallBufferSeek(t, max) ==
  /\ nops < max
  /\ \E p \in BufferPositions :
       Begin(t, [LocInit EXCEPT !.op = "buffer.seek", !.clamped = p,
                                !.segs0 = segments], "bs_pos", <<>>)
  /\ CallFrame

CallClear(t, max) ==
  /\ nops < max
  /\ Begin(t, [LocInit EXCEPT !.op = "clear"], "cl_seg", <<>>)
  /\ CallFrame

CallBufferLevel(t, max) ==
  /\ nops < max
  /\ Begin(t, [LocInit EXCEPT !.op = "buffer_level"], "bl_pos", <<>>)
  /\ CallFrame

CallStats(t, max) ==
  /\ nops < max
  /\ Begin(t, [LocInit EXCEPT !.op = "stats"], "sx_outer", <<>>)
  /\ CallFrame

InitBuffer == InitWith(DefaultConfig)

\* One step of the buffer operation that task t is running.
BufferStep(t) ==
  \/ AddSegment(t) \/ EvictSegments(t) \/ ConsumeSegment(t) \/ BufferUpdatePosition(t)
  \/ CleanupConsumed(t) \/ BufferLevel(t) \/ BufferedRanges(t) \/ Clear(t)
  \/ BufferSeek(t) \/ Stats(t)

\* Tasks call the buffer concurrently.
NextBuf ==
  \E t \in Tasks :
    \/ CallAddSegment(t, MaxBufOps) \/ CallConsumeSegment(t, MaxBufOps)
    \/ CallBufferUpdatePosition(t, MaxBufOps) \/ CallBufferSeek(t, MaxBufOps)
    \/ CallClear(t, MaxBufOps) \/ CallBufferLevel(t, MaxBufOps) \/ CallStats(t, MaxBufOps)
    \/ BufferStep(t)

SpecBuf == InitBuffer /\ [][NextBuf]_vars

\* One task calls the buffer: each operation returns before the next starts.
NextBufSeq ==
  \/ CallAddSegment(1, MaxBufSeqOps) \/ CallConsumeSegment(1, MaxBufSeqOps)
  \/ CallBufferUpdatePosition(1, MaxBufSeqOps) \/ CallBufferSeek(1, MaxBufSeqOps)
  \/ CallClear(1, MaxBufSeqOps) \/ CallBufferLevel(1, MaxBufSeqOps)
  \/ CallStats(1, MaxBufSeqOps)
  \/ BufferStep(1)

SpecBufSeq == InitBuffer /\ [][NextBufSeq]_vars

\* One task fills the buffer and moves the playback position with FillOps
\* calls; once they have returned, tasks call the buffer concurrently.
Filled == nops >= FillOps /\ (nops = FillOps => \A t \in Tasks : pc[t] = "idle")
NextBufFilled ==
  \/ nops < FillOps /\ CallAddSegment(1, MaxBufFilledOps)
  \/ nops < FillOps /\ CallBufferUpdatePosition(1, MaxBufFilledOps)
  \/ \E t \in Tasks :
       \/ Filled /\ CallAddSegment(t, MaxBufFilledOps)
       \/ Filled /\ CallBufferSeek(t, MaxBufFilledOps)
       \/ Filled /\ CallBufferUpdatePosition(t, MaxBufFilledOps)
       \/ Filled /\ CallConsumeSegment(t, MaxBufFilledOps)
       \/ Filled /\ CallClear(t, MaxBufFilledOps)
       \/ Filled /\ CallBufferLevel(t, MaxBufFilledOps)
       \/ Filled /\ CallStats(t, MaxBufFilledOps)
       \/ BufferStep(t)

SpecBufFilled == InitBuffer /\ [][NextBufFilled]_vars

\* A seek on the empty buffer, which misses, then segments are added again
\* and the level is asked for.
RefillMinBufferTimes == {4, 8, 12}
InitRefill ==
  \E mb \in RefillMinBufferTimes : InitWith([DefaultConfig EXCEPT !.min_buffer_time = mb])
NextRefill ==
  \/ nops = 0 /\ CallBufferSeek(1, MaxRefillOps)
  \/ nops > 0 /\ CallAddSegment(1, MaxRefillOps)
  \/ nops > 0 /\ CallBufferLevel(1, MaxRefillOps)
  \/ BufferSeek(1) \/ Clear(1) \/ AddSegment(1) \/ EvictSegments(1) \/ BufferLevel(1)

SpecRefill == InitRefill /\ [][NextRefill]_vars

\* ------------------------------------------------- the emitter on its own
InitEmit == InitWith(DefaultConfig)
NextEmit == \E t \in Tasks : CallEmit(t, MaxEmits) \/ Emit(t)
SpecEmit == InitEmit /\ [][NextEmit]_vars

\* One task emits; the consumer receives at most MaxReceived records and
\* makes no progress after that.  The task itself is always scheduled.
NextEmitStalled ==
  \/ CallEmit(1, MaxStalledEmits)
  \/ Emit(1)
  \/ sequence - chan <= MaxReceived /\ Recv

SpecEmitStalled == InitEmit /\ [][NextEmitStalled]_vars /\ WF_vars(Emit(1))

\* C5: within one emitter the k-th record produced by emit carries sequence
\* number k (from 1, no gaps, no duplicates), also when tasks emit concurrently.
C5_SequenceContiguous == \A k \in 1..Len(Produced) : Produced[k].sequence = k

\* The buffer has been flushed once and two tasks are inside emit at once.
C5_Witness ==
  /\ Len(flushed) >= max_buffer_size
  /\ \E t \in Tasks : pc[t] = "em_push" /\ \E u \in Tasks : u # t /\ pc[u] = "em_seq"

\* ------------------------------------------- the manifest parsers on their own
(* A master playlist is the sequence of its variants, an MPD the sequence   *)
(* of its Representation elements; of each only the attributes that decide  *)
(* the id and the place of the rendition are kept: [id (Option), bandwidth  *)
(* (Option)].  A variant has no id and always a bandwidth.                  *)

\* renditions.sort_by_key(|r| r.bandwidth): a stable sort, here by insertion
\* of r behind the elements that are not above it.
RECURSIVE InsertByBandwidth(_, _)
InsertByBandwidth(sorted, r) ==
  IF sorted = <<>> THEN <<r>>
  ELSE IF Head(sorted).bandwidth <= r.bandwidth
       THEN <<Head(sorted)>> \o InsertByBandwidth(Tail(sorted), r)
       ELSE <<r>> \o sorted

RECURSIVE SortByBandwidth(_)
SortByBandwidth(rs) ==
  IF rs = <<>> THEN <<>>
  ELSE InsertByBandwidth(SortByBandwidth(SubSeq(rs, 1, Len(rs) - 1)), rs[Len(rs)])

\* format!("variant_{}", idx) and format!("rep_{}", idx), idx from 0
VariantId(idx) == <<"variant_0", "variant_1", "variant_2", "variant_3">>[idx + 1]
RepId(idx) == <<"rep_0", "rep_1", "rep_2", "rep_3">>[idx + 1]

\* HlsParser::extract_renditions
extract_renditions(variants) ==
  Some(SortByBandwidth([i \in 1..Len(variants) |->
                          [id |-> VariantId(i - 1), bandwidth |-> Unwrap(variants[i].bandwidth),
                           resolution |-> NoneV]]))

\* DashParser::extract_representations; None is Err(InvalidManifest)
extract_representations(reps) ==
  LET renditions ==
        SortByBandwidth([i \in 1..Len(reps) |->
                           [id |-> IF IsSome(reps[i].id) THEN Unwrap(reps[i].id)
                                   ELSE RepId(i - 1),
                            bandwidth |-> IF IsSome(reps[i].bandwidth)
                                          THEN Unwrap(reps[i].bandwidth) ELSE 0,
                            resolution |-> NoneV]])
  IN IF renditions = <<>> THEN NoneV ELSE Some(renditions)

VariantInputs == [id : {NoneV}, bandwidth : {Some(800000), Some(2800000), Some(5000000)}]
RepresentationInputs ==
  [id : {NoneV, Some("v1"), Some("rep_1")}, bandwidth : {NoneV, Some(800000), Some(2800000)}]

\* The sequences over S of at most MaxRenditions elements.
Documents(S) == UNION {[1..n -> S] : n \in 0..MaxRenditions}

\* HlsParser::parse_master: the playlist has parsed, the renditions are
\* extracted.
ParseMaster ==
  /\ \E doc \in Documents(VariantInputs) :
       parsed' = Some([parser |-> "hls", doc |-> doc, renditions |-> extract_renditions(doc)])
  /\ UNCHANGED <<config, classified, sessVars, bufVars, abr, emVars, taskVars, applied, abrOut>>

\* DashParser::parse_mpd
ParseMpd ==
  /\ \E doc \in Documents(RepresentationInputs) :
       parsed' = Some([parser |-> "dash", doc |-> doc,
                       renditions |-> extract_representations(doc)])
  /\ UNCHANGED <<config, classified, sessVars, bufVars, abr, emVars, taskVars, applied, abrOut>>

InitParse == InitWith(DefaultConfig)
NextParse == ParseMaster \/ ParseMpd
SpecParse == InitParse /\ [][NextParse]_vars

\* No two elements of rs have the same id.
UniqueIds(rs) == \A i, j \in 1..Len(rs) : i # j => rs[i].id # rs[j].id

\* ------------------------------------------------------ errors on their own
\* The variants of kino_core::Error.
ErrorKinds ==
  {"ManifestFetch", "ManifestParse", "InvalidManifest", "NoSuitableRendition",
   "SegmentFetch", "SegmentTimeout", "SegmentDecryption",
   "BufferUnderrun", "BufferOverflow", "BufferSeekFailed",
   "DrmNotSupported", "LicenseAcquisition", "LicenseExpired", "ContentKeyNotFound",
   "PlaybackStalled", "InvalidStateTransition", "CodecNotSupported",
   "Network", "ConnectionTimeout", "InvalidConfig", "Internal", "Io"}

\* Error::is_recoverable
is_recoverable(e) ==
  e \in {"SegmentFetch", "SegmentTimeout", "BufferUnderrun", "Network", "ConnectionTimeout"}

\* The host asks whether an error is recoverable.
Classify ==
  /\ Len(classified) < MaxClassified
  /\ \E e \in ErrorKinds :
       classified' = Append(classified, [error |-> e, recoverable |-> is_recoverable(e)])
  /\ UNCHANGED <<config, parsed, sessVars, bufVars, abr, emVars, taskVars, applied, abrOut>>

InitErr == InitWith(DefaultConfig)
NextErr == Classify
SpecErr == InitErr /\ [][NextErr]_vars

\* C23: is_recoverable is true exactly for ManifestFetch, SegmentFetch,
\* SegmentTimeout, Network, ConnectionTimeout and BufferUnderrun, and false
\* for every other kind of error.
C23_RecoverableKinds ==
  \A i \in DOMAIN classified :
    classified[i].recoverable <=>
      classified[i].error \in {"ManifestFetch", "SegmentFetch", "SegmentTimeout", "Network",
                               "ConnectionTimeout", "BufferUnderrun"}

\* ----------------------------------------------- the QoE calculator on its own
InitialBufferTimes == {1, 5}
RebufferDurations == {1, 2, 30}
BitrateSamples == {<<1, 2000000>>, <<1, 5000000>>, <<1, 5000001>>, <<2, 8000000>>}

QoeFrame ==
  /\ nops < MaxQoeCalls
  /\ nops' = nops + 1
  /\ UNCHANGED <<config, classified, parsed, sessVars, bufVars, abr, sequence, abuf, flushed, chan, locks, pc, stack,
                 loc, ret, applied, abrOut>>

\* QoeCalculator::record_initial_buffer
RecordInitialBuffer ==
  /\ QoeFrame
  /\ \E d \in InitialBufferTimes :
       qoe' = [qoe EXCEPT !.initial_buffer_time = d, !.score = NoneV]

\* QoeCalculator::record_rebuffer
RecordRebuffer ==
  /\ QoeFrame
  /\ \E d \in RebufferDurations :
       qoe' = [qoe EXCEPT !.rebuffer_count = @ + 1, !.rebuffer_duration = @ + d,
                          !.score = NoneV]

\* QoeCalculator::record_quality_switch
RecordQualitySwitch ==
  /\ QoeFrame
  /\ qoe' = [qoe EXCEPT !.quality_switches = Append(@, TRUE), !.score = NoneV]

\* QoeCalculator::record_bitrate
RecordBitrate ==
  /\ QoeFrame
  /\ Len(qoe.bitrate_samples) < MaxBitrateSamples
  /\ \E x \in BitrateSamples :
       qoe' = [qoe EXCEPT !.bitrate_samples = Append(@, x), !.score = NoneV]

\* A call of calculate_qoe (&self: the calculator is left as it is).
CalculateQoe ==
  /\ qoe.score = NoneV
  /\ qoe' = [qoe EXCEPT !.score = Some(calculate_qoe(qoe))]
  /\ UNCHANGED <<config, classified, parsed, sessVars, bufVars, abr, sequence, abuf, flushed, chan, taskVars,
                 applied, abrOut>>

InitQoe == InitWith(DefaultConfig)
NextQoe ==
  \/ RecordInitialBuffer \/ RecordRebuffer \/ RecordQualitySwitch \/ RecordBitrate
  \/ CalculateQoe
SpecQoe == InitQoe /\ [][NextQoe]_vars

\* The score of the stated formula, with the average compared as the exact
\* quotient of the sums.
StatedScore(q) ==
  LET total == TotalDuration(q.bitrate_samples)
      over(limit) == total > 0 /\ WeightedSum(q.bitrate_samples) > limit * total
      bonus == IF over(5000000) THEN 5 ELSE IF over(2000000) THEN 2 ELSE 0
  IN ClampScore(100 - 5 * Max2(0, q.initial_buffer_time - 2) - 10 * q.rebuffer_count
                - 5 * q.rebuffer_duration - 2 * Len(q.quality_switches) + bonus)

\* C22: calculate_qoe returns 100 - 5 max(0, initial_buffer_time - 2)
\* - 10 rebuffer_count - 5 rebuffer_duration - 2 (number of switches), plus 5
\* if the duration-weighted average bitrate exceeds 5 Mbps or plus 2 if it
\* exceeds 2 Mbps, clamped to [0, 100]; it is 44 for initial buffer 5 s, two
\* rebuffers of 3 s in all, three switches and an average of 2 Mbps.
C22_ScoreIsStatedFormula ==
  IsSome(qoe.score) =>
    /\ Unwrap(qoe.score) = StatedScore(qoe)
    /\ Unwrap(qoe.score) \in 0..100
    /\ (/\ qoe.initial_buffer_time = 5 /\ qoe.rebuffer_count = 2 /\ qoe.rebuffer_duration = 3
        /\ Len(qoe.quality_switches) = 3 /\ qoe.bitrate_samples = << <<1, 2000000>> >>)
       => Unwrap(qoe.score) = 44

\* ------------------------------------------------- the ABR engine on its own
RenditionLists == {<<>>, <<RLow, RMid, RHigh>>, <<RHigh, RLow>>}
BufferLevels == {0, 12, 40}
BitrateCaps == {0, 500000, 3000000}
ScreenWidths == {NoneV, Some(1000)}
Estimates == {4000000}
MeasuredBytes == {0, 3, 500000}
MeasuredDurations == {0, 1}
Algorithms == {"Throughput", "Bola", "Hybrid"}

\* A host calls AbrEngine::select_rendition.
SelectRendition ==
  /\ nops < MaxAbrCalls
  /\ \E rs \in RenditionLists, level \in BufferLevels, cap \in BitrateCaps,
        screen \in ScreenWidths, est \in Estimates \cup {abr.bandwidth_estimate} :
       LET ctx == Context(level, cap, screen, est)
           r == select_rendition(abr, rs, ctx)
       IN /\ abr' = r.abr
          /\ abrOut' = Selection(rs, ctx, abr, r)
  /\ nops' = nops + 1
  /\ UNCHANGED <<config, classified, parsed, sessVars, bufVars, emVars, locks, pc, stack, loc, ret, applied>>

\* A host calls AbrEngine::record_measurement.
RecordMeasurement ==
  /\ nops < MaxAbrCalls
  /\ \E bytes \in MeasuredBytes, dur \in MeasuredDurations :
       /\ abr' = record_measurement(abr, bytes, dur)
       /\ abrOut' = Some([op |-> "record", rs |-> <<>>, ctx |-> NoneV, before |-> abr,
                          pick |-> NoneV, out |-> NoneV,
                          sample |-> throughput_bps(bytes, dur)])
  /\ nops' = nops + 1
  /\ UNCHANGED <<config, classified, parsed, sessVars, bufVars, emVars, locks, pc, stack, loc, ret, applied>>

InitAbr == \E alg \in Algorithms : InitWith([DefaultConfig EXCEPT !.abr_algorithm = alg])
NextAbr == SelectRendition \/ RecordMeasurement
SpecAbr == InitAbr /\ [][NextAbr]_vars

\* C10: for a non-empty rendition list, select_rendition returns Some rendition
\* and that rendition is an element of the list passed to the call, whatever
\* the rule, the context and the calls made before.
C10_ReturnsElementOfList ==
  (IsSome(abrOut) /\ Unwrap(abrOut).op = "select" /\ Unwrap(abrOut).rs # <<>>)
    => /\ IsSome(Unwrap(abrOut).out)
       /\ \E i \in 1..Len(Unwrap(abrOut).rs) : Unwrap(abrOut).rs[i] = Unwrap(Unwrap(abrOut).out)

\* ------------------------------------- the ABR engine on a fixed rendition list
FixedLists == {<<RLow, RMid, RHigh>>, <<RHigh, RLow>>}

\* The index (from 0) of the rule's pick in the list, as an Option.
PickIndex(rs, pick) == IF IsSome(pick) THEN Position(rs, Unwrap(pick).id) ELSE NoneV

\* History: the number of select_rendition calls in a row, up to and including
\* this one, in which the rule picked an index other than the committed one.
\* `run` is the number before the call; a run of three ended with a commit and
\* starts again; a call in which the rule picks nothing is not counted.
RunAfter(run, rs, before, pick) ==
  LET base == IF run >= 3 THEN 0 ELSE run IN
  IF ~IsSome(PickIndex(rs, pick)) THEN base
  ELSE IF ~IsSome(before.last_selection) THEN 0
  ELSE IF PickIndex(rs, pick) = before.last_selection THEN 0
  ELSE base + 1

\* A host calls AbrEngine::select_rendition with the list chosen at the start.
SelectOnFixedList ==
  /\ nops < MaxAbrCalls
  /\ \E level \in BufferLevels, cap \in BitrateCaps, screen \in ScreenWidths,
        est \in Estimates \cup {abr.bandwidth_estimate} :
       LET rs == Unwrap(abrOut).rs
           ctx == Context(level, cap, screen, est)
           r == select_rendition(abr, rs, ctx)
           pick == AlgSelect(abr.algorithm, rs, ctx)
       IN /\ abr' = r.abr
          /\ abrOut' = Some([op |-> "select", rs |-> rs, ctx |-> ctx, before |-> abr,
                             pick |-> pick, out |-> r.out, sample |-> 0,
                             run |-> RunAfter(Unwrap(abrOut).run, rs, abr, pick)])
  /\ nops' = nops + 1
  /\ UNCHANGED <<config, classified, parsed, sessVars, bufVars, emVars, locks, pc, stack, loc, ret, applied>>

\* A host calls AbrEngine::record_measurement between two selections.
RecordOnFixedList ==
  /\ nops < MaxAbrCalls
  /\ \E bytes \in MeasuredBytes, dur \in MeasuredDurations :
       /\ abr' = record_measurement(abr, bytes, dur)
       /\ abrOut' = Some([Unwrap(abrOut) EXCEPT !.op = "record", !.before = abr,
                                                !.sample = throughput_bps(bytes, dur)])
  /\ nops' = nops + 1
  /\ UNCHANGED <<config, classified, parsed, sessVars, bufVars, emVars, locks, pc, stack, loc, ret, applied>>

InitAbrFixed ==
  \E alg \in Algorithms, rs \in FixedLists :
    /\ InitBase([DefaultConfig EXCEPT !.abr_algorithm = alg])
    /\ abrOut = Some([op |-> "new", rs |-> rs, ctx |-> NoneV, before |-> AbrNew(alg),
                      pick |-> NoneV, out |-> NoneV, sample |-> 0, run |-> 0])
NextAbrFixed == SelectOnFixedList \/ RecordOnFixedList
SpecAbrFixed == InitAbrFixed /\ [][NextAbrFixed]_vars

\* ------------------------------- the ABR engine under a max-bitrate cap
\* Ascending lists with a rendition at or below each cap.
CappedLists == {<<RLow, RMid, RHigh>>, <<RLow, RHigh>>}
CappedCaps == {1000000, 3000000}

\* A host calls AbrEngine::select_rendition with the list and the cap chosen
\* at the start.
SelectCapped ==
  /\ nops < MaxAbrCalls
  /\ \E level \in BufferLevels, screen \in ScreenWidths,
        est \in Estimates \cup {abr.bandwidth_estimate} :
       LET rs == Unwrap(abrOut).rs
           ctx == Context(level, config.max_bitrate, screen, est)
           r == select_rendition(abr, rs, ctx)
           pick == AlgSelect(abr.algorithm, rs, ctx)
       IN /\ abr' = r.abr
          /\ abrOut' = Some([op |-> "select", rs |-> rs, ctx |-> ctx, before |-> abr,
                             pick |-> pick, out |-> r.out, sample |-> 0,
                             run |-> RunAfter(Unwrap(abrOut).run, rs, abr, pick)])
  /\ nops' = nops + 1
  /\ UNCHANGED <<config, classified, parsed, sessVars, bufVars, emVars, locks, pc, stack, loc, ret, applied>>

InitAbrCapped ==
  \E alg \in Algorithms, rs \in CappedLists, cap \in CappedCaps :
    /\ InitBase([DefaultConfig EXCEPT !.abr_algorithm = alg, !.max_bitrate = cap])
    /\ abrOut = Some([op |-> "new", rs |-> rs, ctx |-> NoneV, before |-> AbrNew(alg),
                      pick |-> NoneV, out |-> NoneV, sample |-> 0, run |-> 0])
NextAbrCapped == SelectCapped \/ RecordOnFixedList
SpecAbrCapped == InitAbrCapped /\ [][NextAbrCapped]_vars

\* ------------------------------------------------ the Hybrid rule at work
\* Buffer levels on both sides of 10 s and estimates that let the throughput
\* rule pick above and below BOLA.
HybridLevels == {12, 20, 22, 40}
HybridEstimates == {1000000, 4000000, 8000000}
HybridCaps == {0, 3000000}

\* A host calls AbrEngine::select_rendition of an engine built with Hybrid.
SelectHybrid ==
  /\ nops < MaxHybridCalls
  /\ \E rs \in RenditionLists, level \in HybridLevels, cap \in HybridCaps,
        screen \in ScreenWidths, est \in HybridEstimates :
       LET ctx == Context(level, cap, screen, est)
           r == select_rendition(abr, rs, ctx)
       IN /\ abr' = r.abr
          /\ abrOut' = Selection(rs, ctx, abr, r)
  /\ nops' = nops + 1
  /\ UNCHANGED <<config, classified, parsed, sessVars, bufVars, emVars, locks, pc, stack, loc, ret, applied>>

InitHybrid == InitWith([DefaultConfig EXCEPT !.abr_algorithm = "Hybrid"])
NextHybrid == SelectHybrid
SpecHybrid == InitHybrid /\ [][NextHybrid]_vars

\* ------------------------------------------- loading under each ABR rule
\* One task loads, fetches and stops, under each ABR rule.
InitLoad == \E alg \in Algorithms : InitWith([DefaultConfig EXCEPT !.abr_algorithm = alg])
NextLoad ==
  \/ CallLoad(1, MaxLoadOps, ManifestInputs)
  \/ CallStop(1, MaxLoadOps)
  \/ CallFetchSegment(1, MaxLoadOps)
  \/ SetState(1) \/ Emit(1) \/ Load(1) \/ Stop(1) \/ BufferLevel(1) \/ Clear(1)
  \/ FetchSegment(1)

SpecLoad == InitLoad /\ [][NextLoad]_vars

\* C11: on a fixed rendition list, once a selection is committed, a call in
\* which the rule picks another index returns renditions[last_selection] and
\* keeps the committed index, until the third such call in a row, which
\* commits and returns the new pick and resets the counter; a call in which
\* the rule picks the committed index returns it.
C11_CommitOnThirdDifferentPick ==
  LET o == Unwrap(abrOut)
      p == PickIndex(o.rs, o.pick)
      last == o.before.last_selection
  IN (o.op = "select" /\ IsSome(p) /\ IsSome(last)) =>
       IF p # last /\ o.run = 3
       THEN o.out = o.pick /\ abr.last_selection = p /\ abr.stability_counter = 0
       ELSE o.out = Get(o.rs, Unwrap(last)) /\ abr.last_selection = last

\* The third call in a row whose pick differs has committed the new pick.
C11_Witness ==
  LET o == Unwrap(abrOut) IN
  /\ o.op = "select" /\ o.run = 3
  /\ IsSome(o.before.last_selection)
  /\ abr.last_selection # o.before.last_selection
  /\ o.out = o.pick

Abs(x) == IF x < 0 THEN -x ELSE x

\* C12 (as stated): after any record_measurement call, the first one on a
\* fresh engine included, the absolute change of bandwidth_estimate is at
\* most 0.2 times |sample - previous estimate|.
C12_ChangeWithinEwmaBound ==
  LET o == Unwrap(abrOut) IN
  (IsSome(abrOut) /\ o.op = "record") =>
    10 * Abs(abr.bandwidth_estimate - o.before.bandwidth_estimate)
      <= 2 * Abs(o.sample - o.before.bandwidth_estimate)

\* C12 (amended): when the previous estimate is 0 the call sets the estimate
\* to the sample; otherwise the new estimate is 0.8 previous + 0.2 sample
\* truncated, so the absolute change is below 0.2 |sample - previous| + 1.
C12_SeededThenEwmaTruncated ==
  LET o == Unwrap(abrOut)
      old == o.before.bandwidth_estimate
      new == abr.bandwidth_estimate
  IN (IsSome(abrOut) /\ o.op = "record") =>
       IF old = 0 THEN new = o.sample
       ELSE /\ 10 * Abs(new - old) < 2 * Abs(o.sample - old) + 10
            /\ Min2(old, o.sample) <= new /\ new <= Max2(old, o.sample)

\* A measurement on a non-zero estimate whose truncation made the change
\* larger than 0.2 |sample - previous|.
C12_Witness ==
  LET o == Unwrap(abrOut) IN
  /\ IsSome(abrOut) /\ o.op = "record"
  /\ o.before.bandwidth_estimate # 0
  /\ 10 * Abs(abr.bandwidth_estimate - o.before.bandwidth_estimate)
       > 2 * Abs(o.sample - o.before.bandwidth_estimate)

\* The list is in the order of a Manifest: ascending bandwidth.
Ascending(rs) == \A i, j \in 1..Len(rs) : i < j => rs[i].bandwidth <= rs[j].bandwidth

\* The Option o holds an element of rs of the least bandwidth.
IsLowest(rs, o) ==
  /\ IsSome(o)
  /\ \E i \in 1..Len(rs) : rs[i] = Unwrap(o)
  /\ \A i \in 1..Len(rs) : Unwrap(o).bandwidth <= rs[i].bandwidth

\* C13: the Throughput rule on a non-empty list returns the lowest-bandwidth
\* rendition whenever no rendition passes its filter (bandwidth estimate 0
\* in particular).
C13_ThroughputFallsBackToLowest ==
  LET o == Unwrap(abrOut) IN
  (IsSome(abrOut) /\ o.op = "select" /\ o.before.algorithm = "Throughput" /\ o.rs # <<>>
     /\ \A i \in 1..Len(o.rs) : ~ThroughputPasses(o.rs[i], o.ctx))
    => IsLowest(o.rs, o.pick)

C1_EveryChangeIsAnEdge == [][state' # state => <<state, state'>> \in Edges]_vars

\* C1 (amended): every change of the session state is an edge of the graph,
\* except those written by stop, which sets Idle from any state.
C1_ChangesAreEdgesOrStop ==
  [][state' # state =>
       \/ <<state, state'>> \in Edges
       \/ state' = "Idle" /\ \E t \in Tasks : pc[t] = "st_state"]_vars

\* set_state has moved the session to Playing and stop has set Idle from there
\* (Playing has no edge to Idle).
C1_Witness ==
  /\ \E i \in DOMAIN applied : applied[i].forced /\ applied[i].from = "Playing"
  /\ \E j \in DOMAIN applied : ~applied[j].forced /\ applied[j].to = "Playing"

\* C2 (as stated): an operation that requested a transition s -> t that is not
\* an edge has returned InvalidStateTransition and the state is still s.
C2_NonEdgeIsReported ==
  \A t \in Tasks :
    IsSome(ret[t].bad) =>
      ret[t].res = "InvalidStateTransition" /\ ret[t].post = Unwrap(ret[t].bad)[1]

\* C2 (amended): when set_state refuses s -> t the state is still s when the
\* operation returns; load, play, pause and seek return InvalidStateTransition,
\* update_position discards the error and returns normally.
C2_NonEdgeLeavesState ==
  \A t \in Tasks :
    IsSome(ret[t].bad) =>
      /\ ret[t].post = Unwrap(ret[t].bad)[1]
      /\ Unwrap(ret[t].bad) \notin Edges
      /\ ret[t].res = (IF ret[t].op = "update_position" THEN "Ok" ELSE "InvalidStateTransition")

\* update_position at the end of the content was refused Buffering -> Ended.
C2_Witness ==
  /\ ret[1].op = "update_position"
  /\ ret[1].bad = Some(<<"Buffering", "Ended">>)
  /\ ret[1].res = "Ok"
  /\ state = "Buffering"

\* The writes of Playing made by the operation that task t is running.
PlayingWrites(t) ==
  {i \in DOMAIN applied : applied[i].n = loc[t].n /\ applied[i].to = "Playing"}

\* The StateChange(.., Playing) records produced for the writes in W.
PlayingEvents(W) ==
  {k \in DOMAIN Produced : Produced[k].event.ev = "StateChange" /\ Produced[k].event.tid \in W}

\* C3: while two play() calls run concurrently, at most one of them has written
\* Playing and at most one StateChange(.., Playing) has been emitted for them.
C3_OnePlayTransition ==
  \A t, u \in Tasks :
    (t # u /\ loc[t].op = "play" /\ loc[u].op = "play") =>
      /\ Cardinality(PlayingWrites(t) \cup PlayingWrites(u)) <= 1
      /\ Cardinality(PlayingEvents(PlayingWrites(t) \cup PlayingWrites(u))) <= 1

\* C4: the StateChange records appear, by sequence number, in the order in
\* which their transitions were written to the state.
C4_EventsInTransitionOrder ==
  \A i, j \in DOMAIN Produced :
    (i < j /\ Produced[i].event.ev = "StateChange" /\ Produced[j].event.ev = "StateChange")
      => Produced[i].event.tid < Produced[j].event.tid

\* A task is inside an operation and its lock request cannot be granted.
Blocked(t) == pc[t] # "idle" /\ ~Ready(t)

\* C6: no interleaving of operations deadlocks: it never happens that every
\* task that is inside an operation waits for a lock that cannot be granted.
C6_NoDeadlock == ~(\E t \in Tasks : Blocked(t) /\ \A u \in Tasks : pc[u] = "idle" \/ Blocked(u))

\* C7: concurrent buffer mutations have the effect of some serial order: an
\* add_segment inserts its segment at the end of the last stored segment, as
\* the map is at the moment of the insertion.
C7_AddAppendsAtInsertion ==
  [][\A t \in Tasks :
       (pc[t] = "as_ins" /\ pc'[t] # "as_ins") => loc[t].start_time = LastEnd(segments)]_vars

\* C8: memory_used never exceeds max_memory_bytes plus the byte length of the
\* largest segment added (every segment added has the same length).
C8_MemoryBounded ==
  \A seg \in SegmentInputs : memory_used <= config.max_memory_bytes + seg.size

\* The keys of the stored segments that are not marked consumed.
Unconsumed == {k \in DOMAIN segments : ~segments[k].consumed}

\* C9: buffered_duration is the sum of the durations of the stored segments
\* that are not marked consumed.
C9_DurationIsUnconsumedSum == buffered_duration = SumDuration(segments, Unconsumed)
\* The step with which task t finishes the operation `op`.
Finishes(t, op) == pc[t] # "idle" /\ pc'[t] = "idle" /\ loc[t].op = op

\* p clamped to [0, duration] when the duration is known, max(0, p) otherwise.
ClampedTo(p, dur) ==
  IF IsSome(dur) THEN (IF p < 0 THEN 0 ELSE IF p > Unwrap(dur) THEN Unwrap(dur) ELSE p)
  ELSE (IF p < 0 THEN 0 ELSE p)

\* The states from which set_state(Seeking) is permitted.
Seekable == {"Playing", "Paused", "Ended"}

\* C15 (as stated): in whatever state seek(p) is called, the position after
\* it is p clamped to [0, duration], or max(0, p) without a duration.
C15_SeekSetsClampedPosition ==
  [][\A t \in Tasks :
       Finishes(t, "seek") => position' = ClampedTo(loc[t].p, duration)]_vars

\* C15 (amended): a seek(p) called in Playing, Paused or Ended succeeds and
\* leaves the position at p clamped; called in any other state it returns
\* InvalidStateTransition and leaves the position as it was.
C15_SeekSetsPositionWhenPermitted ==
  [][\A t \in Tasks :
       Finishes(t, "seek") =>
         IF loc[t].pre \in Seekable
         THEN ret'[t].res = "Ok" /\ position' = ClampedTo(loc[t].p, duration)
         ELSE ret'[t].res = "InvalidStateTransition" /\ position' = loc[t].pos0]_vars

\* A seek beyond the end of a loaded VOD has succeeded: the position is the
\* duration.
C15_Witness ==
  /\ pc[1] = "idle" /\ ret[1].op = "seek" /\ ret[1].res = "Ok"
  /\ ret[1].pre = "Playing"
  /\ IsSome(duration) /\ position = Unwrap(duration)
  /\ playback_position = Unwrap(duration)

\* C16: after stop() the state is Idle, and a second stop() right after it is
\* a no-op: no step of it changes the session state, the position or the
\* buffer content, and it produces no analytics record.
C16_SecondStopIsNoOp ==
  [][\A t \in Tasks :
       /\ (Finishes(t, "stop") => state' = "Idle")
       /\ (loc[t].op = "stop" /\ ret[t].op = "stop") =>
            /\ state' = state /\ position' = position
            /\ segments' = segments /\ buffered_duration' = buffered_duration
            /\ memory_used' = memory_used
            /\ Produced' = Produced]_vars

\* C17: when the manifest of the most recent successful load is live, the
\* duration is absent and update_position has not moved the session to Ended.
C17_LiveHasNoDuration ==
  \A t \in Tasks :
    (pc[t] = "idle" /\ IsSome(manifest) /\ Unwrap(manifest).is_live) =>
      /\ duration = NoneV
      /\ ~(ret[t].op = "update_position" /\ ret[t].pre # "Ended" /\ ret[t].post = "Ended")

\* C18: when load fails because the manifest cannot be fetched or parsed, or
\* a segment fetch fails, an Error event has been emitted and the state is
\* Error.
C18_FailureMovesToError ==
  \A t \in Tasks :
    (pc[t] = "idle" /\ ret[t].res \in {"ManifestError", "SegmentFetch"}) =>
      /\ state = "Error"
      /\ \E k \in DOMAIN Produced : Produced[k].event.ev = "Error"

\* Some stored segment's range [start, end) contains pos.
Contains(segs, pos) ==
  \E k \in DOMAIN segs : segs[k].start_time <= pos /\ pos < segs[k].end_time

C20_PlayElsewhereIsNoOp ==
  [][\A t \in Tasks :
       (/\ loc[t].op = "play"
        /\ loc[t].pre \notin {"Paused", "Ended"}
        /\ ~(/\ loc[t].pre = "Buffering"
             /\ buffer_level(segments, playback_position) >= config.min_buffer_time))
       => state' = state /\ Produced' = Produced]_vars

\* The variant of a record's event, with the two states of a StateChange.
Kind(r) ==
  IF r.event.ev = "StateChange" THEN <<"StateChange", r.event.from, r.event.to>>
  ELSE <<r.event.ev>>

\* The variants of the records of P after the first `from`, in order.
Kinds(P, from) == [k \in 1..(Len(P) - from) |-> Kind(P[from + k])]

\* The records of P after the first `from` carry the sequence numbers
\* from + 1, from + 2, ...
Numbered(P, from) == \A k \in 1..(Len(P) - from) : P[from + k].sequence = from + k

\* A load called in Idle returns Ok.
LoadSucceeds(t) == Finishes(t, "load") /\ ret'[t].res = "Ok" /\ loc[t].pre = "Idle"

C24_SortedWithUniqueIds ==
  (IsSome(parsed) /\ IsSome(Unwrap(parsed).renditions)) =>
    LET rs == Unwrap(Unwrap(parsed).renditions) IN Ascending(rs) /\ UniqueIds(rs)

\* The writes of `state` from Playing to Buffering that update_position made.
Stalls ==
  {i \in DOMAIN applied :
     applied[i].op = "update_position" /\ applied[i].from = "Playing"
     /\ applied[i].to = "Buffering"}

\* The Rebuffer records produced so far.
Rebuffers == {k \in DOMAIN Produced : Produced[k].event.ev = "Rebuffer"}

\* C25: whenever no operation is in progress, stall_count is the number of
\* Playing -> Buffering transitions that update_position has performed, and
\* as many Rebuffer events have been emitted.
C25_StallsCounted ==
  (\A t \in Tasks : pc[t] = "idle") =>
    /\ stall_count = Cardinality(Stalls)
    /\ Cardinality(Rebuffers) = Cardinality(Stalls)

\* The buffer holds enough to start playback (can_start_playback).
CanStart == buffer_level(segments, playback_position) >= config.min_buffer_time

\* C26: play() called in Buffering moves the session to Playing and emits a
\* Play event if buffer_level() >= min_buffer_time at the call; otherwise no
\* step of it changes the state or emits an event, and it returns in
\* Buffering.
C26_PlayStartsOnlyWithBuffer ==
  [][\A t \in Tasks :
       (loc[t].op = "play" /\ loc[t].pre = "Buffering") =>
         IF CanStart
         THEN Finishes(t, "play") =>
                /\ state' = "Playing"
                /\ Produced' # <<>>
                /\ Produced'[Len(Produced')].event.ev = "Play"
         ELSE /\ Produced' = Produced
              /\ state' = "Buffering"]_vars

\* The state in which a seek of task t that is returning should leave the
\* session: Playing when the target is buffered and the session was Playing.
\* (A seek that hits leaves the segments alone and one that misses clears
\* them, so the target is buffered after the seek iff it was before.)
AfterSeek(t) ==
  IF Contains(segments', ClampedTo(loc[t].p, duration)) /\ loc[t].pre = "Playing"
  THEN "Playing" ELSE "Buffering"

\* C27 (as stated): when seek returns, the session is in Playing if the
\* target position was buffered and the session was Playing before the seek,
\* and in Buffering otherwise.
C27_SeekEndsPlayingOrBuffering ==
  [][\A t \in Tasks : Finishes(t, "seek") => state' = AfterSeek(t)]_vars

\* C27 (amended): a seek called in Playing, Paused or Ended returns Ok and
\* leaves the session in Playing if the target was buffered and the session
\* was Playing, in Buffering otherwise; called in any other state it returns
\* InvalidStateTransition and leaves the state as it was.  No seek returns
\* with the session in Seeking.
C27_PermittedSeekEndsPlayingOrBuffering ==
  [][\A t \in Tasks :
       Finishes(t, "seek") =>
         /\ state' # "Seeking"
         /\ IF loc[t].pre \in Seekable
            THEN ret'[t].res = "Ok" /\ state' = AfterSeek(t)
            ELSE ret'[t].res = "InvalidStateTransition" /\ state' = loc[t].pre]_vars

\* A seek called in Playing has returned, with the session in Buffering.
C27_Witness ==
  /\ pc[1] = "idle" /\ ret[1].op = "seek" /\ ret[1].res = "Ok"
  /\ ret[1].pre = "Playing" /\ ret[1].post = "Buffering" /\ state = "Buffering"

\* C28: after any sequence of add_segment calls, in any order of sequence
\* numbers, the intervals [start, end) of the stored segments are pairwise
\* disjoint and increase with the sequence number, and each end is the start
\* plus the duration.
C28_TimelineOrdered ==
  (\A t \in Tasks : pc[t] = "idle") =>
    /\ \A i, j \in DOMAIN segments : i < j => segments[i].end_time <= segments[j].start_time
    /\ \A k \in DOMAIN segments :
         segments[k].end_time = segments[k].start_time + segments[k].duration

\* The stored segments that are not consumed and end at or after the
\* playback position less 5 s.
Protected ==
  {k \in DOMAIN segments :
     ~segments[k].consumed /\ segments[k].end_time >= playback_position - EvictBehind}

\* Task t is at the step of clear, within clear or within a seek (which
\* calls clear only when it has missed).
Clearing(t) == pc[t] = "cl_seg" /\ loc[t].op \in {"clear", "buffer.seek"}

\* C29: no step of eviction (in add_segment) or of cleanup (in
\* update_position) removes a segment that is not consumed and whose end is
\* at or after playback_position - 5 s; such a segment leaves the buffer
\* only in clear or in a seek that misses.
C29_ProtectedSegmentsStay ==
  [][\A k \in Protected : k \notin DOMAIN segments' => \E t \in Tasks : Clearing(t)]_vars

\* C30: after any sequence of add_segment (repeated numbers included),
\* consume_segment, update_position, seek and clear calls, memory_used is
\* the sum of the byte lengths of the stored segments.
C30_MemoryIsStoredBytes ==
  (\A t \in Tasks : pc[t] = "idle") => memory_used = SumSize(segments, DOMAIN segments)

\* C31: after a seek that has missed, once the segments added since have a
\* total duration of at least min_buffer_time, buffer_level() is at least
\* min_buffer_time (can_start_playback() is true).
C31_RefillReachesMinBuffer ==
  (nops > 0 /\ pc[1] = "idle" /\ SumDuration(segments, DOMAIN segments) >= config.min_buffer_time)
    => CanStart

C33_OverflowFlushesOldestHalf ==
  [][\A t \in Tasks :
       (pc[t] = "em_push" /\ pc'[t] # "em_push" /\ Len(abuf) + 1 >= max_buffer_size) =>
         LET pushed == Append(abuf, Unwrap(loc[t].record))
             half == Len(pushed) \div 2
         IN /\ flushed' = flushed \o SubSeq(pushed, 1, half)
            /\ abuf' = SubSeq(pushed, half + 1, Len(pushed))]_vars

\* C34: fetch_segment returns the bytes when the first request succeeds or,
\* with retry_attempts > 0, when the request succeeds on a retry; it returns
\* the SegmentFetch error only when every attempt has failed.
C34_FetchRetries ==
  [][\A t \in Tasks :
       Finishes(t, "fetch_segment") =>
         LET served == IF IsSome(loc[t].resp) THEN loc[t].resp
                       ELSE IF config.retry_attempts > 0 THEN loc[t].retry ELSE NoneV
         IN IF IsSome(served)
            THEN ret'[t].res = "Ok" /\ ret'[t].out = Some(Unwrap(served).bytes)
            ELSE ret'[t].res = "SegmentFetch"]_vars

\* C35: when load returns Ok, current_rendition is present and is one of
\* the renditions of the manifest this load has parsed, and the state is
\* Buffering.
C35_LoadSelectsRendition ==
  [][\A t \in Tasks :
       (Finishes(t, "load") /\ ret'[t].res = "Ok") =>
         LET rs == Unwrap(loc[t].m).renditions IN
         /\ IsSome(current_rendition')
         /\ \E i \in DOMAIN rs : rs[i] = Unwrap(current_rendition')
         /\ state' = "Buffering"]_vars

\* C36: the Seek record that seek(p) emits carries from = the position held
\* when seek was called and to = the clamped target.
C36_SeekEventFromTo ==
  \A t \in Tasks :
    (loc[t].op = "seek" /\ IsSome(loc[t].record) /\ Unwrap(loc[t].record).event.ev = "Seek") =>
      /\ Unwrap(loc[t].record).event.sfrom = loc[t].pos0
      /\ Unwrap(loc[t].record).event.sto = ClampedTo(loc[t].p, duration)

\* The filter of the Throughput rule as stated: bandwidth <= 0.8 x estimate,
\* bandwidth <= cap when a cap is set, width <= screen width when one is given.
StatedPasses(r, ctx) ==
  /\ 10 * r.bandwidth <= 8 * ctx.bandwidth_estimate
  /\ ctx.max_bitrate > 0 => r.bandwidth <= ctx.max_bitrate
  /\ (IsSome(ctx.screen_width) /\ IsSome(r.resolution)) =>
       Unwrap(r.resolution) <= Unwrap(ctx.screen_width)

\* The indices of the renditions of the last call that pass the stated filter.
Passing ==
  {i \in 1..Len(Unwrap(abrOut).rs) : StatedPasses(Unwrap(abrOut).rs[i], Unwrap(abrOut).ctx)}

ThroughputCall ==
  IsSome(abrOut) /\ Unwrap(abrOut).op = "select" /\ Unwrap(abrOut).before.algorithm = "Throughput"

\* C37: when at least one rendition passes the filter of the Throughput
\* rule, the rule picks a passing rendition whose bandwidth is the greatest
\* among the passing ones.
C37_ThroughputPicksGreatestPassing ==
  (ThroughputCall /\ Passing # {}) =>
    /\ IsSome(Unwrap(abrOut).pick)
    /\ \E i \in Passing :
         /\ Unwrap(abrOut).rs[i] = Unwrap(Unwrap(abrOut).pick)
         /\ \A j \in Passing : Unwrap(abrOut).rs[j].bandwidth <= Unwrap(abrOut).rs[i].bandwidth

\* Two renditions pass, one does not, and the rule picks the second of the list.
C37_Witness ==
  /\ ThroughputCall
  /\ Cardinality(Passing) = 2
  /\ Len(Unwrap(abrOut).rs) = 3
  /\ Unwrap(abrOut).pick = Some(Unwrap(abrOut).rs[2])

\* The last call was a select_rendition under the Hybrid rule in which both
\* the throughput rule and BOLA have a pick.
HybridCall ==
  /\ IsSome(abrOut) /\ Unwrap(abrOut).op = "select"
  /\ Unwrap(abrOut).before.algorithm = "Hybrid"
  /\ IsSome(ThroughputSelect(Unwrap(abrOut).rs, Unwrap(abrOut).ctx))
  /\ IsSome(BolaSelect(Unwrap(abrOut).rs, Unwrap(abrOut).ctx))

\* The index (from 1) of the first rendition of the list with r's id.
IndexOf(rs, r) == CHOOSE i \in 1..Len(rs) : rs[i].id = r.id /\ \A j \in 1..(i - 1) : rs[j].id # r.id

\* C38: the Hybrid rule, with throughput pick T and BOLA pick B, picks B
\* when buffer_level < 10 s, otherwise T when bandwidth(T) <= bandwidth(B),
\* otherwise the rendition at index floor((idx(T) + idx(B)) / 2) of the list.
C38_HybridCombinesPicks ==
  HybridCall =>
    LET rs == Unwrap(abrOut).rs
        ctx == Unwrap(abrOut).ctx
        T == Unwrap(ThroughputSelect(rs, ctx))
        B == Unwrap(BolaSelect(rs, ctx))
        mid == ((IndexOf(rs, T) - 1) + (IndexOf(rs, B) - 1)) \div 2
    IN Unwrap(abrOut).pick =
         IF ctx.buffer_level < HybridLowBuffer THEN Some(B)
         ELSE IF T.bandwidth <= B.bandwidth THEN Some(T)
         ELSE Some(rs[mid + 1])

\* The buffer is not low, the throughput pick is above the BOLA pick, and
\* the rule picks the rendition at the middle index, which is not the
\* throughput pick.
C38_Witness ==
  /\ HybridCall
  /\ Unwrap(abrOut).ctx.buffer_level >= HybridLowBuffer
  /\ Unwrap(ThroughputSelect(Unwrap(abrOut).rs, Unwrap(abrOut).ctx)).bandwidth
       > Unwrap(BolaSelect(Unwrap(abrOut).rs, Unwrap(abrOut).ctx)).bandwidth
  /\ Unwrap(abrOut).pick # ThroughputSelect(Unwrap(abrOut).rs, Unwrap(abrOut).ctx)

\* C39: a seek called in a state without an edge to Seeking returns
\* InvalidStateTransition, and no step of it changes the session state, the
\* playback position or the buffer, or produces an analytics record.
C39_RefusedSeekChangesNothing ==
  [][\A t \in Tasks :
       (loc[t].op = "seek" /\ loc[t].pre \notin Seekable) =>
         /\ state' = state /\ state_tx' = state_tx
         /\ position' = position
         /\ bufVars' = bufVars
         /\ Produced' = Produced
         /\ Finishes(t, "seek") => ret'[t].res = "InvalidStateTransition"]_vars

\* A seek called in Buffering, after a load, has been refused.
C39_Witness ==
  /\ pc[1] = "idle" /\ ret[1].op = "seek" /\ ret[1].res = "InvalidStateTransition"
  /\ ret[1].pre = "Buffering" /\ state = "Buffering" /\ IsSome(manifest)

\* C40: with a cap c > 0 and an ascending list that has a rendition with
\* bandwidth <= c, no select_rendition call returns a rendition with
\* bandwidth > c, whatever the rule, the buffer level, the estimate and the
\* calls made before with the same list and cap.
C40_NeverAboveCap ==
  (Unwrap(abrOut).op = "select" /\ IsSome(Unwrap(abrOut).out)) =>
    Unwrap(Unwrap(abrOut).out).bandwidth <= config.max_bitrate

\* The stability filter has returned the committed rendition instead of the
\* rule's pick, under a cap that excludes a rendition of the list.
C40_Witness ==
  /\ Unwrap(abrOut).op = "select"
  /\ IsSome(Unwrap(abrOut).out) /\ IsSome(Unwrap(abrOut).pick)
  /\ Unwrap(abrOut).out # Unwrap(abrOut).pick
  /\ \E i \in 1..Len(Unwrap(abrOut).rs) : Unwrap(abrOut).rs[i].bandwidth > config.max_bitrate

====
